---- MODULE Spec2Model ----
(***************************************************************************)
(* Measurement orchestration engine of connectivity-tester                 *)
(* (pkg/measurement/measure.go, first variant, lines 1-457) with the       *)
(* Provider (pkg/proxy) and Store (pkg/database) operations it calls.      *)
(*                                                                         *)
(* The main goroutine runs RunMeasurements: it resolves the server and ISP *)
(* lists, then for every ISP and every client slot leases a client,        *)
(* persists it and hands it to processMeasurements, which runs one         *)
(* measureServer pass per server on a pool of worker goroutines.           *)
(* The run starts in the measure command (measureCmd), which validates the *)
(* flags before RunMeasurements is called.                                 *)
(* The Session Monitor and Shutdown are not part of the sources at hand;   *)
(* their actions (StartMonitoring, MonitorTick, StopMonitoring,            *)
(* MonitorObserveStop, Shutdown, ShutdownReturn) follow the design         *)
(* document and call the Provider's IsValidClient and the Store's          *)
(* UpdateClientExpiration, which are. RunMeasurements itself calls none of *)
(* them: a client's monitor may be started before its dispatch, as the     *)
(* design has it, but the dispatch does not wait for that.                 *)
(*                                                                         *)
(* Spec is the run. MonitoredSpec, ShutdownSpec and PoolSpec are runs      *)
(* under the fairness their goroutines get. LeaseSpec, ValiditySpec and    *)
(* ShuffleSpec take one Provider operation on its own (GetClientForISP,    *)
(* IsValidClient, shuffleStrings) and apply it to every bounded input.     *)
(***************************************************************************)
EXTENDS Integers, Sequences, FiniteSets

\* ------------------------------------------------------------------ bounds
MaxISPs == 2            \* length of the Provider's ISP list
MaxClientsPerISP == 2   \* largest Settings.MaxClients
MaxServers == 2         \* rows of the Store's servers table
MaxPrefixes == 2        \* length of measurement.prefixes
MaxWorkerSetting == 2   \* largest <provider>.max_workers
MaxVariation == 2       \* distance of a run's inputs from the plainest request
                        \* (see Variation)
MaxLiveVariation == 1   \* the same, for the runs taken under fairness
                        \* (MonitoredSpec, ShutdownSpec)
MaxEvents == 2          \* environment events of one run: failing calls of the
                        \* Provider, Prober or Store, clock ticks, monitor
                        \* timer ticks and calls of StopMonitoring or Shutdown
MaxTime == 2            \* last clock value
SessionTicks == 1       \* Provider session length, in clock ticks
MaxLeaseRetries == 3    \* largest maxRetries of a GetClientForISP call
MaxShuffleLen == 3      \* longest slice given to shuffleStrings on its own

\* --------------------------------------------------------------- constants
Protocols == <<"tcp", "udp">>
AllPrefixes == <<"p1", "p2", "p3">>
AllISPs == <<"ispA", "ispB", "ispC">>
ProviderNames == {"soax"}
AllNames == <<"n1", "n2", "n3", "n4">>

VARIABLES
    \* inputs of the run, fixed by Init
    settings,       \* Settings: [ISP, ServerID, ServerIDs, ServerNames, MaxClients,
                    \* MaxRetries];
                    \* ServerID is the one-id form of the explicit server
                    \* filter (measure.go), ServerIDs and ServerNames the
                    \* list forms the measure command fills in
    prefixes,       \* MeasurementService.prefixes
    config,         \* [provider, max_workers, allowed_ports]: provider name,
                    \* <provider>.max_workers and <provider>.allowed_ports
    dbServers,      \* Store: servers table (written by no operation of a run)
    providerISPs,   \* the ISP list the Provider's API holds
    \* environment
    now,            \* clock
    events,         \* environment events so far
    \* RunMeasurements (main goroutine)
    pc, servers, isps, ispIdx, slot, ret, client, savedClient, leaseCalls,
    persistCalls,
    \* Provider
    providerCall,   \* one call of the Provider taken on its own (LeaseSpec,
                    \* ValiditySpec): its arguments, what the egress checks
                    \* would give, its result
    slotLog,        \* what became of each client slot, in loop order:
                    \* [isp, slot, outcome]
    \* Store
    dbClients,      \* clients table
    measurements,   \* measurement table: measurements[sid] holds the rows with
                    \* session_id = sid, in insertion order
    \* Prober
    probes,         \* TestConnectivity calls: probes[sid] holds the calls of the
                    \* pass with session id sid, in call order
    \* processMeasurements
    jobs, jobsClosed, results, resultsClosed, wg, workers, errorCount, started,
    nextSession,
    passLog,        \* the measureServer calls in call order: client, server and
                    \* session id of each
    \* in-memory Client structs, by id (shared through *models.Client)
    clients,
    \* Session Monitor
    activeClients,  \* ids of the clients registered as active
    monitor,        \* monitor[c]: "running", or why the monitor of client c
                    \* ended: "stopped" (it saw the client invalid),
                    \* "cancelled" (shutdown), "released" (monitoring of c
                    \* was stopped by a caller)
    checks,         \* checks[c]: verdicts of the validity checks made for client c
    shutdown,       \* Shutdown: "idle", "signalled", then how it returned:
                    \* "joined" (all monitors had ended) or "timedout"
    stopRequested   \* ids of the clients whose monitoring a caller stopped

cfgVars == <<settings, prefixes, config, dbServers, providerISPs>>
envVars == <<now, events>>
runVars == <<pc, servers, isps, ispIdx, slot, ret, client, savedClient, leaseCalls, persistCalls, slotLog>>
storeVars == <<dbClients, measurements, probes>>
poolVars == <<jobs, jobsClosed, results, resultsClosed, wg, workers, errorCount, started, nextSession, passLog>>
monVars == <<clients, activeClients, monitor, checks, shutdown, stopRequested>>
vars == <<cfgVars, envVars, runVars, storeVars, poolVars, monVars, providerCall>>

\* ------------------------------------------------------------------ values
NoClient == [ID |-> 0, IP |-> 0, ISP |-> "", ExpirationTime |-> 0, ProxyURL |-> ""]
NoServer ==
    [ID |-> 0, Name |-> "", Port |-> "", FullAccessLink |-> "", TCPErrorMsg |-> "",
     TCPErrorOp |-> "", UDPErrorMsg |-> "", UDPErrorOp |-> ""]

\* fmt.Sprintf("%d", port) for the port numbers in use
PortString(port) ==
    IF port = 443 THEN "443" ELSE IF port = 8080 THEN "8080" ELSE "8443"

\* the values of <provider>.allowed_ports: no restriction, or one listed port
AllowedPortLists == {<<>>, <<443>>, <<8080>>}

\* last-known error of a server for one protocol (message, operation tag):
\* none, an error of the connect operation, an error of a later operation
NoError == [Msg |-> "", Op |-> ""]
ConnectError == [Msg |-> "connection refused", Op |-> "connect"]
ReadError == [Msg |-> "i/o timeout", Op |-> "read"]
LastErrors == {NoError, ConnectError, ReadError}

ServerRow(i, tcpErr, udpErr) ==
    [ID |-> i, Name |-> AllNames[i],
     Port |-> IF i = 1 THEN "443" ELSE IF i = 2 THEN "8080" ELSE "8443",
     FullAccessLink |-> IF i = 1 THEN "ss://s1" ELSE IF i = 2 THEN "ss://s2" ELSE "ss://s3",
     TCPErrorMsg |-> tcpErr.Msg, TCPErrorOp |-> tcpErr.Op,
     UDPErrorMsg |-> udpErr.Msg, UDPErrorOp |-> udpErr.Op]

RECURSIVE SumSeq(_)
SumSeq(s) == IF s = <<>> THEN 0 ELSE Head(s) + SumSeq(Tail(s))

\* number of known-broken protocols in a servers table
BrokenCount(tbl) ==
    SumSeq([i \in 1..Len(tbl) |->
              (IF tbl[i].TCPErrorMsg # "" THEN 1 ELSE 0) + (IF tbl[i].UDPErrorMsg # "" THEN 1 ELSE 0)])

ServerTables ==
    UNION { { [i \in 1..n |-> ServerRow(i, e[i][1], e[i][2])] :
                e \in [1..n -> LastErrors \X LastErrors] } : n \in 0..MaxServers }

Range(s) == { s[i] : i \in 1..Len(s) }

\* ------------------------------------------------------------------- Store
\* getAllowedPorts: the configured ports as strings; the empty list stands
\* for nil, "all ports are allowed"
getAllowedPorts(cfg) ==
    [i \in 1..Len(cfg.allowed_ports) |-> PortString(cfg.allowed_ports[i])]

\* DB.GetWorkingServers: rows with an empty tcp error OR an empty udp error,
\* restricted to the allowed ports unless allowedPorts is nil
GetWorkingServers(tbl, allowedPorts) ==
    SelectSeq(tbl, LAMBDA r : /\ r.TCPErrorMsg = "" \/ r.UDPErrorMsg = ""
                              /\ allowedPorts # <<>> =>
                                    \E i \in 1..Len(allowedPorts) : r.Port = allowedPorts[i])

\* getWorkingServers: the working servers on the provider's allowed ports
getWorkingServers(tbl, cfg) == GetWorkingServers(tbl, getAllowedPorts(cfg))

\* DB.GetServerByID: the row with that id, or no row
GetServerByID(tbl, id) ==
    SelectSeq(tbl, LAMBDA r : r.ID = id)

\* DB.GetServersByIDs: the rows whose id is among ids; ids that match no row
\* are logged and left out
GetServersByIDs(tbl, ids) ==
    IF Len(ids) = 0 THEN <<>>
    ELSE SelectSeq(tbl, LAMBDA r : r.ID \in Range(ids))

\* DB.GetServersByNames: the rows whose name is among names; names that match
\* no row are logged and left out
GetServersByNames(tbl, names) ==
    IF Len(names) = 0 THEN <<>>
    ELSE SelectSeq(tbl, LAMBDA r : r.Name \in Range(names))

\* all rows of the measurement table
RECURSIVE Rows(_)
Rows(tbl) == IF tbl = <<>> THEN <<>> ELSE Head(tbl) \o Rows(Tail(tbl))

\* a query that forgets the session: all rows with that retry number
GetMeasurementsOfAnySession(tbl, sessionID, retryNumber) ==
    SelectSeq(Rows(tbl), LAMBDA m : m.RetryNumber = retryNumber)

\* DB.GetMeasurementsBySession: rows of the session with that retry number
GetMeasurementsBySession(tbl, sessionID, retryNumber) ==
    SelectSeq(Rows(tbl), LAMBDA m : m.SessionID = sessionID /\ m.RetryNumber = retryNumber)

\* an insert that replaces the stored row of the same session and protocol
InsertMeasurementUpsert(tbl, m) ==
    LET rows == tbl[m.SessionID]
    IN  IF \E i \in 1..Len(rows) : rows[i].Protocol = m.Protocol
        THEN [tbl EXCEPT ![m.SessionID] =
                 [i \in 1..Len(rows) |-> IF rows[i].Protocol = m.Protocol THEN m ELSE rows[i]]]
        ELSE [tbl EXCEPT ![m.SessionID] = Append(rows, m)]

\* DB.InsertMeasurement: append one row
InsertMeasurement(tbl, m) == [tbl EXCEPT ![m.SessionID] = Append(@, m)]

\* an insert that also renews the stored sessions of the same ISP
InsertClientsRenewing(tbl, c) ==
    Append([i \in 1..Len(tbl) |->
               IF tbl[i].ISP = c.ISP THEN [tbl[i] EXCEPT !.ExpirationTime = c.ExpirationTime]
               ELSE tbl[i]],
           [c EXCEPT !.ID = Len(tbl) + 1])

\* DB.InsertClients with one client: the row gets the next id
InsertClients(tbl, c) == Append(tbl, [c EXCEPT !.ID = Len(tbl) + 1])

\* DB.UpdateClientExpiration: set expiration_time of the row with that id
UpdateClientExpiration(tbl, clientID, expirationTime) ==
    [i \in 1..Len(tbl) |->
        IF tbl[i].ID = clientID THEN [tbl[i] EXCEPT !.ExpirationTime = expirationTime]
        ELSE tbl[i]]

\* ---------------------------------------------------------------- Provider
\* an exchange that only writes slice[i]
SwapOverwrite(s, i, j) == [s EXCEPT ![i] = s[j]]

\* slice[i], slice[j] = slice[j], slice[i]
Swap(s, i, j) == [s EXCEPT ![i] = s[j], ![j] = s[i]]

\* shuffleStrings: for i = len-1 down to 1 (0-based), j = r.Intn(i+1), swap;
\* the set of slices the loop can leave, from position i (1-based) down
RECURSIVE shuffleFrom(_, _)
shuffleFrom(s, i) ==
    IF i <= 1 THEN {s}
    ELSE UNION { shuffleFrom(Swap(s, i, j), i - 1) : j \in 1..i }

shuffleStrings(s) == shuffleFrom(s, Len(s))

\* SoaxProvider.BuildTransportURL: a socks5 URL naming the client's ISP
BuildTransportURL(c) == "socks5://isp-" \o c.ISP

\* the client a successful GetClientForISP returns
LeasedClient(isp, ip, t) ==
    [ID |-> 0, IP |-> ip, ISP |-> isp, ExpirationTime |-> t + SessionTicks, ProxyURL |-> ""]

\* what one attempt of GetClientForISP can meet: a node of the right country,
\* the proxy's "general SOCKS server failure", another fetch error, a body
\* that is no JSON, a failing ASN lookup, a node of another country
AttemptOutcomes ==
    {"client", "no nodes", "fetch error", "bad json", "ipinfo error", "wrong country"}

\* the outcomes the attempts of one call would meet, one per attempt
AttemptSeqs(maxRetries) == [1..maxRetries -> AttemptOutcomes]

\* a loop body that treats the SOCKS failure like any other fetch error
leaseAttemptNoNodesRetried(outcome) ==
    IF outcome = "client" THEN "return client" ELSE "continue"

\* the body of the retry loop: what one attempt does with what it met
leaseAttempt(outcome) ==
    IF outcome = "no nodes" THEN "return error"
    ELSE IF outcome = "client" THEN "return client"
    ELSE "continue"

RECURSIVE leaseLoop(_, _, _, _, _, _)
leaseLoop(retry, isp, maxRetries, outcomes, ip, t) ==
    IF ~(retry < maxRetries)
    THEN [client |-> NoClient, err |-> "failed to get client", attempts |-> retry]
    ELSE LET step == leaseAttempt(outcomes[retry + 1])
         IN  IF step = "return error"
             THEN [client |-> NoClient, err |-> "no available nodes", attempts |-> retry + 1]
             ELSE IF step = "return client"
             THEN [client |-> LeasedClient(isp, ip, t), err |-> "", attempts |-> retry + 1]
             ELSE leaseLoop(retry + 1, isp, maxRetries, outcomes, ip, t)

\* SoaxProvider.GetClientForISP (ProxyRackProvider's is the same loop): the
\* client or the error, and the number of egress checks made
GetClientForISP(isp, maxRetries, outcomes, ip, t) ==
    leaseLoop(0, isp, maxRetries, outcomes, ip, t)

\* what the egress check (fetch.Fetch of the ipinfo page through the proxy)
\* can give for a client: a failure, the leased IP, another IP (0)
FetchResults(c) == { [ok |-> FALSE, IP |-> 0], [ok |-> TRUE, IP |-> c.IP], [ok |-> TRUE, IP |-> 0] }

\* a validity check that leaves the expiration time as leased
IsValidClientKeepExpiration(c, fetched, t) ==
    IF ~fetched.ok
    THEN [client |-> c, valid |-> FALSE, err |-> "failed to fetch IP info"]
    ELSE [client |-> c, valid |-> fetched.IP = c.IP, err |-> ""]

\* a validity check that marks the client expired when the fetch fails
IsValidClientExpireOnError(c, fetched, t) ==
    IF ~fetched.ok
    THEN [client |-> [c EXCEPT !.ExpirationTime = t], valid |-> FALSE,
          err |-> "failed to fetch IP info"]
    ELSE IF fetched.IP # c.IP
         THEN [client |-> [c EXCEPT !.ExpirationTime = t], valid |-> FALSE, err |-> ""]
         ELSE [client |-> c, valid |-> TRUE, err |-> ""]

\* a validity check that takes a failed egress check for a changed IP
IsValidClientErrorAsInvalid(c, fetched, t) ==
    IF ~fetched.ok \/ fetched.IP # c.IP
    THEN [client |-> [c EXCEPT !.ExpirationTime = t], valid |-> FALSE, err |-> ""]
    ELSE [client |-> c, valid |-> TRUE, err |-> ""]

\* SoaxProvider.IsValidClient / ProxyRackProvider.IsValidClient at time t:
\* the client struct after the call, the verdict and the error
IsValidClient(c, fetched, t) ==
    IF ~fetched.ok
    THEN [client |-> c, valid |-> FALSE, err |-> "failed to fetch IP info"]
    ELSE IF fetched.IP # c.IP
         THEN [client |-> [c EXCEPT !.ExpirationTime = t], valid |-> FALSE, err |-> ""]
         ELSE [client |-> c, valid |-> TRUE, err |-> ""]

\* newSoaxProvider with Config.MaxWorkers read from <provider>.max_workers, and
\* SoaxProvider.GetMaxWorkers: the concurrency the Provider advertises
GetMaxWorkers(cfg) == IF cfg.max_workers = 0 THEN 1 ELSE cfg.max_workers

\* ------------------------------------------------------ measurement engine
\* what connectivity.TestConnectivity can return: an error of the call itself,
\* a report with a test error, a report without
CallFailed == [err |-> "dial failed", hasError |-> FALSE, Msg |-> "", Op |-> ""]
ReportFailed == [err |-> "", hasError |-> TRUE, Msg |-> "timeout", Op |-> "connect"]
ReportOK == [err |-> "", hasError |-> FALSE, Msg |-> "", Op |-> ""]
ProbeOutcomes == {CallFailed, ReportFailed, ReportOK}

\* accessLinkOverride *string
NilLink == [isNil |-> TRUE, link |-> ""]
LinkPtr(l) == [isNil |-> FALSE, link |-> l]

\* a check that lets every protocol through
shouldSkipProtocolNever(protocol, server) == FALSE

\* shouldSkipProtocol
shouldSkipProtocol(protocol, server) ==
    \/ protocol = "tcp" /\ server.TCPErrorMsg # ""
    \/ protocol = "udp" /\ server.UDPErrorMsg # ""

\* a classification that records the text of a failed call but not its tag
handleTestResultUntagged(outcome, m) ==
    IF outcome.err # ""
    THEN [m EXCEPT !.ErrorMsg = outcome.err]
    ELSE IF outcome.hasError
         THEN [m EXCEPT !.ErrorMsg = outcome.Msg, !.ErrorOp = outcome.Op]
         ELSE [m EXCEPT !.ErrorOp = "success"]

\* handleTestResult: the measurement with its error fields filled in
handleTestResult(outcome, m) ==
    IF outcome.err # ""
    THEN [m EXCEPT !.ErrorMsg = outcome.err, !.ErrorOp = "fail"]
    ELSE IF outcome.hasError
         THEN [m EXCEPT !.ErrorMsg = outcome.Msg, !.ErrorOp = outcome.Op]
         ELSE [m EXCEPT !.ErrorOp = "success"]

\* a measurement that writes the probe's outcome into the error fields of the
\* server's row, as a test of the servers themselves does
serversAfterDirectMeasurement(tbl, server, protocol, outcome) ==
    LET msg == IF outcome.err # "" THEN outcome.err ELSE outcome.Msg
        op == IF outcome.err # "" THEN "fail" ELSE outcome.Op
    IN  [i \in 1..Len(tbl) |->
            IF tbl[i].ID # server.ID THEN tbl[i]
            ELSE IF protocol = "tcp"
                 THEN [tbl[i] EXCEPT !.TCPErrorMsg = msg, !.TCPErrorOp = op]
                 ELSE [tbl[i] EXCEPT !.UDPErrorMsg = msg, !.UDPErrorOp = op]]

\* performProtocolMeasurement: the servers table after the call; server is a
\* copy of the row and the only Store call is InsertMeasurement
serversAfterMeasurement(tbl, server, protocol, outcome) == tbl

\* lines 307-310: the error of performProtocolMeasurement after InsertMeasurement
saveErrorSwallowed(insertOK) == ""

saveError(insertOK) ==
    IF insertOK THEN "" ELSE "failed to save measurement"

\* performProtocolMeasurement, given what the Prober returns and whether the
\* Store accepts the row: the tables after the call and the error returned
performProtocolMeasurement(c, server, sessionID, retryNumber, prefix, accessLinkOverride, protocol, outcome, insertOK, tbl, log) ==
    LET transport == IF ~accessLinkOverride.isNil
                     THEN c.ProxyURL \o "|" \o accessLinkOverride.link
                     ELSE c.ProxyURL \o "|" \o server.FullAccessLink
        measurement == [ClientID |-> c.ID, ServerID |-> server.ID,
                        Protocol |-> protocol, SessionID |-> sessionID,
                        RetryNumber |-> retryNumber, PrefixUsed |-> prefix,
                        ErrorMsg |-> "", ErrorOp |-> ""]
        call == [ClientID |-> c.ID, ServerID |-> server.ID, Protocol |-> protocol, RetryNumber |-> retryNumber,
                 Prefix |-> prefix, Transport |-> transport, Outcome |-> outcome]
    IN  IF shouldSkipProtocol(protocol, server)
        THEN [measurements |-> tbl, probes |-> log, err |-> "", probed |-> FALSE]
        ELSE [measurements |-> IF insertOK
                               THEN InsertMeasurement(tbl, handleTestResult(outcome, measurement))
                               ELSE tbl,
              probes |-> [log EXCEPT ![sessionID] = Append(@, call)],
              err |-> saveError(insertOK), probed |-> TRUE]

\* a classification that forgets the "success" tag
hasErrorOfAnyTag(m) == m.ErrorMsg # "" \/ m.ErrorOp # ""

\* a classification shared by all protocols: one failed row marks them all
initialResultsOfShared(rows) ==
    [p \in { rows[i].Protocol : i \in 1..Len(rows) } |->
        \E i \in 1..Len(rows) : rows[i].ErrorMsg # "" \/ rows[i].ErrorOp # "success"]

\* measureServer, lines 201-204: map[protocol]hasError of the rows read back
hasErrorOf(m) == m.ErrorMsg # "" \/ m.ErrorOp # "success"

initialResultsOf(rows) ==
    [p \in { rows[i].Protocol : i \in 1..Len(rows) } |->
        LET last == CHOOSE i \in 1..Len(rows) :
                        /\ rows[i].Protocol = p
                        /\ \A j \in (i + 1)..Len(rows) : rows[j].Protocol # p
        IN  hasErrorOf(rows[last])]

\* orders in which `for protocol, hasError := range initialResults` can visit
\* the map (Go leaves the order of a map range unspecified)
RangeOrders(m) ==
    { o \in [1..Cardinality(DOMAIN m) -> DOMAIN m] :
        \A i, j \in 1..Cardinality(DOMAIN m) : i # j => o[i] # o[j] }

\* a retry loop that tries the prefixes before the bare retry
RECURSIVE retriesOfPrefixFirst(_, _, _)
retriesOfPrefixFirst(order, res, pfx) ==
    IF order = <<>> THEN <<>>
    ELSE (IF res[Head(order)]
          THEN [i \in 1..Len(pfx) |->
                     [protocol |-> Head(order), prefix |-> pfx[i], withPrefix |-> TRUE]]
               \o <<[protocol |-> Head(order), prefix |-> "", withPrefix |-> FALSE]>>
          ELSE <<>>)
         \o retriesOfPrefixFirst(Tail(order), res, pfx)

\* the retries of the loop at lines 209-247, in issue order, for one visiting
\* order: per failed protocol one bare retry, then one retry per prefix
RECURSIVE retriesOf(_, _, _)
retriesOf(order, res, pfx) ==
    IF order = <<>> THEN <<>>
    ELSE (IF res[Head(order)]
          THEN <<[protocol |-> Head(order), prefix |-> "", withPrefix |-> FALSE]>>
               \o [i \in 1..Len(pfx) |->
                     [protocol |-> Head(order), prefix |-> pfx[i], withPrefix |-> TRUE]]
          ELSE <<>>)
         \o retriesOf(Tail(order), res, pfx)

\* a session id derived from the client alone
sessionIDOfClient(next, c, server) == c.ID

\* line 185: sessionID := uuid.New().String(), an id that no other pass has;
\* next is the number of that pass among all the passes of the run
newSessionID(next, c, server) == next

\* a counter that is not advanced
nextRetryCountSame(count) == count

\* a counter that starts again at 1 for every retry
nextRetryCountRestart(count) == 1

\* lines 216 and 227: retryCount = retryCount + 1
nextRetryCount(count) == count + 1

\* -------------------------------------------------------------------- Init
IdleWorker ==
    [pc |-> "idle", client |-> NoClient, server |-> NoServer, sessionID |-> 0, k |-> 0,
     plan |-> <<>>, retryCount |-> 0, err |-> "", startedAt |-> 0]

WorkerIDs == 1..MaxWorkerSetting

\* ids of the clients a run can persist
MonitorIDs == 1..(MaxISPs * MaxClientsPerISP)

Abs(n) == IF n < 0 THEN 0 - n ELSE n

NoLeaseResult == [client |-> NoClient, err |-> "", attempts |-> 0 - 1]

NoProviderCall == [op |-> "none"]

\* the result of an IsValidClient call that was not made yet
NoVerdict == [client |-> NoClient, valid |-> FALSE, err |-> "pending"]

\* the lists of at most MaxServers distinct elements of s
FilterLists(s) ==
    UNION { { l \in [1..n -> s] : \A i, j \in 1..n : i # j => l[i] # l[j] } : n \in 0..MaxServers }

\* how far the inputs of a run are from the plainest request: one listed ISP,
\* one client per ISP, one stored server without known errors, no explicit
\* server or ISP, one lease attempt, no prefix, one worker, no port
\* restriction (a port restriction and a further lease attempt count twice)
TableVariation(tbl) == Abs(Len(tbl) - 1) + BrokenCount(tbl)

SettingsVariation(st) ==
    (IF st.ISP # "" THEN 1 ELSE 0)
    + 2 * Abs(st.MaxRetries - 1)
    + Abs(st.MaxClients - 1)
    + (IF st.ServerID # 0 THEN 1 ELSE 0)
    + Len(st.ServerIDs)
    + Len(st.ServerNames)

ConfigVariation(cfg) == Abs(cfg.max_workers - 1) + 2 * Len(cfg.allowed_ports)

Variation(st, tbl, listed, pfx, cfg) ==
    SettingsVariation(st)
    + (IF st.ISP # "" THEN 0 ELSE Abs(Len(listed) - 1))
    + TableVariation(tbl)
    + Len(pfx)
    + ConfigVariation(cfg)

\* the state before RunMeasurements is called
NoRunYet ==
    /\ now = 0
    /\ events = 0
    /\ pc = "cmd"
    /\ servers = <<>>
    /\ isps = <<>>
    /\ ispIdx = 0
    /\ slot = 0
    /\ ret = "running"
    /\ client = NoClient
    /\ savedClient = 0
    /\ leaseCalls = <<>>
    /\ persistCalls = 0
    /\ slotLog = <<>>
    /\ dbClients = <<>>
    /\ measurements = <<>>
    /\ probes = <<>>
    /\ jobs = <<>>
    /\ jobsClosed = FALSE
    /\ results = <<>>
    /\ resultsClosed = FALSE
    /\ wg = 0
    /\ workers = [w \in WorkerIDs |-> IdleWorker]
    /\ errorCount = 0
    /\ started = 0
    /\ nextSession = 1
    /\ passLog = <<>>
    /\ clients = <<>>
    /\ activeClients = {}
    /\ monitor = <<>>
    /\ checks = <<>>
    /\ shutdown = "idle"
    /\ stopRequested = {}

Init ==
    /\ dbServers \in { tbl \in ServerTables : TableVariation(tbl) <= MaxVariation }
    /\ settings \in
         { st \in [ISP : {"", AllISPs[1]}, ServerID : 0..(Len(dbServers) + 1),
                    ServerIDs : FilterLists(1..(Len(dbServers) + 1)),
                    ServerNames : FilterLists({ AllNames[i] : i \in 1..(Len(dbServers) + 1) }),
                    MaxClients : 0..MaxClientsPerISP,
                    MaxRetries : 1..MaxLeaseRetries] :
             SettingsVariation(st) + TableVariation(dbServers) <= MaxVariation }
    /\ settings.ServerID # 0 => settings.ServerIDs = <<>> /\ settings.ServerNames = <<>>
    /\ providerISPs \in { SubSeq(AllISPs, 1, n) : n \in 0..MaxISPs }
    /\ settings.ISP # "" => providerISPs = <<>>
    /\ prefixes \in { SubSeq(AllPrefixes, 1, n) : n \in 0..MaxPrefixes }
    /\ config \in { cfg \in [provider : ProviderNames, max_workers : 0..MaxWorkerSetting,
                               allowed_ports : AllowedPortLists] :
                       ConfigVariation(cfg) <= MaxVariation }
    /\ Variation(settings, dbServers, providerISPs, prefixes, config) <= MaxVariation
    /\ providerCall = NoProviderCall
    /\ NoRunYet

\* --------------------------------------------------------- RunMeasurements
\* the slot the loops at lines 107-109 are at, with what became of it
SlotEntry(outcome) ==
    [isp |-> ispIdx, slot |-> slot, outcome |-> outcome,
     client |-> IF outcome = "dispatched" THEN savedClient ELSE 0]

\* loops that end in an error when the run has acquired no client
EnterISPFatal(ii) ==
    IF ii <= Len(isps) /\ 0 < settings.MaxClients
    THEN /\ pc' = "lease" /\ ispIdx' = ii /\ slot' = 0 /\ ret' = ret
    ELSE /\ pc' = "done" /\ ispIdx' = ispIdx /\ slot' = slot
         /\ ret' = IF dbClients = <<>> THEN "error" ELSE "nil"

\* the position of the loops at lines 107-143 when ISP number ii is entered
EnterISP(ii) ==
    IF ii <= Len(isps) /\ 0 < settings.MaxClients
    THEN /\ pc' = "lease" /\ ispIdx' = ii /\ slot' = 0 /\ ret' = ret
    ELSE IF ii <= Len(isps)
         THEN /\ pc' = "done" /\ ispIdx' = Len(isps) /\ slot' = 0 /\ ret' = "nil"
         ELSE /\ pc' = "done" /\ ispIdx' = ispIdx /\ slot' = slot /\ ret' = "nil"

\* a slot loop that ends after its first slot (break for continue)
NextSlotBreak == EnterISP(ispIdx + 1)

\* ... and after the body of slot `slot` ends (continue, or end of body)
NextSlot ==
    IF slot + 1 < settings.MaxClients
    THEN /\ pc' = "lease" /\ slot' = slot + 1 /\ ispIdx' = ispIdx /\ ret' = ret
    ELSE EnterISP(ispIdx + 1)

\* line 83: len(servers) == 0
noServersNever(found) == FALSE

noServers(found) == Len(found) = 0

\* return fmt.Errorf(...)
ReturnError ==
    /\ pc' = "done"
    /\ ret' = "error"

\* a command that accepts every combination of server filters
ambiguousServersNever(st) == FALSE

\* measureCmd: len(serverID) > 0 && len(serverName) > 0
ambiguousServers(st) == Len(st.ServerIDs) > 0 /\ Len(st.ServerNames) > 0

\* measureCmd.Run: the flags are validated (os.Exit(1) on a missing --clients
\* or on both server filters) before the database is opened and
\* RunMeasurements is called
measureCmd ==
    /\ pc = "cmd"
    /\ pc' = IF settings.MaxClients = 0 \/ ambiguousServers(settings) THEN "rejected" ELSE "start"
    /\ UNCHANGED <<providerCall, cfgVars, envVars, servers, isps, ispIdx, slot, ret, client, savedClient,
                   leaseCalls, persistCalls, slotLog, storeVars, poolVars, monVars>>

\* lines 65-85
ResolveServers ==
    /\ pc = "start"
    /\ \E dbOK \in BOOLEAN :
        /\ ~dbOK => events < MaxEvents
        /\ events' = IF dbOK THEN events ELSE events + 1
        /\ LET found == IF settings.ServerID # 0
                         THEN GetServerByID(dbServers, settings.ServerID)
                         ELSE IF Len(settings.ServerIDs) > 0
                         THEN GetServersByIDs(dbServers, settings.ServerIDs)
                         ELSE IF Len(settings.ServerNames) > 0
                         THEN GetServersByNames(dbServers, settings.ServerNames)
                         ELSE getWorkingServers(dbServers, config)
           IN  IF ~dbOK \/ noServers(found)
               THEN /\ ReturnError
                    /\ servers' = IF dbOK THEN found ELSE servers
               ELSE /\ pc' = "isps"
                    /\ ret' = ret
                    /\ servers' = found
    /\ UNCHANGED <<providerCall, cfgVars, now, isps, ispIdx, slot, client, savedClient, leaseCalls,
                   persistCalls, slotLog, storeVars, poolVars, monVars>>

\* lines 87-104
ResolveISPs ==
    /\ pc = "isps"
    /\ IF settings.ISP # ""
       THEN /\ isps' = <<settings.ISP>>
            /\ events' = events
            /\ IF 0 < settings.MaxClients
               THEN /\ pc' = "lease" /\ ispIdx' = 1 /\ slot' = 0 /\ ret' = ret
               ELSE /\ pc' = "done" /\ ispIdx' = 1 /\ slot' = 0 /\ ret' = "nil"
       ELSE \E apiOK \in BOOLEAN :
            /\ ~apiOK => events < MaxEvents
            /\ events' = IF apiOK THEN events ELSE events + 1
            /\ IF ~apiOK
               THEN /\ ReturnError
                    /\ UNCHANGED <<isps, ispIdx, slot>>
               ELSE \E l \in shuffleStrings(providerISPs) :
                    /\ isps' = l
                    /\ IF Len(l) > 0 /\ 0 < settings.MaxClients
                       THEN /\ pc' = "lease" /\ ispIdx' = 1 /\ slot' = 0 /\ ret' = ret
                       ELSE /\ pc' = "done" /\ ispIdx' = Len(l) /\ slot' = 0 /\ ret' = "nil"
    /\ UNCHANGED <<providerCall, cfgVars, now, servers, client, savedClient, leaseCalls, persistCalls,
                   slotLog, storeVars, poolVars, monVars>>

\* line 110-116: p.GetClientForISP
Lease ==
    /\ pc = "lease"
    /\ leaseCalls' = Append(leaseCalls, ispIdx)
    /\ \E outcomes \in AttemptSeqs(settings.MaxRetries) :
        LET got == GetClientForISP(isps[ispIdx], settings.MaxRetries, outcomes,
                                   Len(leaseCalls) + 1, now)
            leaseOK == got.err = ""
        IN
        /\ ~leaseOK => events < MaxEvents
        /\ events' = IF leaseOK THEN events ELSE events + 1
        /\ IF leaseOK
           THEN /\ client' = got.client
                /\ pc' = "persist"
                /\ UNCHANGED <<ispIdx, slot, ret, slotLog>>
           ELSE /\ client' = NoClient
                /\ slotLog' = Append(slotLog, SlotEntry("lease failed"))
                /\ NextSlot
    /\ UNCHANGED <<providerCall, cfgVars, now, servers, isps, savedClient, persistCalls, storeVars,
                   poolVars, monVars>>

\* lines 118-139: s.db.InsertClients, savedClient.ProxyURL = p.BuildTransportURL
Persist ==
    /\ pc = "persist"
    /\ persistCalls' = persistCalls + 1
    /\ \E insertOK \in BOOLEAN :
        /\ ~insertOK => events < MaxEvents
        /\ events' = IF insertOK THEN events ELSE events + 1
        /\ IF insertOK
           THEN LET tbl == InsertClients(dbClients, client)
                    saved == tbl[Len(tbl)]
                IN  /\ dbClients' = tbl
                    /\ savedClient' = saved.ID
                    /\ clients' = Append(clients,
                                     [saved EXCEPT !.ProxyURL = BuildTransportURL(saved)])
                    /\ pc' = "dispatch"
                    /\ UNCHANGED <<ispIdx, slot, ret, slotLog>>
           ELSE /\ NextSlot
                /\ slotLog' = Append(slotLog, SlotEntry("persist failed"))
                /\ UNCHANGED <<dbClients, savedClient, clients>>
    /\ UNCHANGED <<providerCall, cfgVars, now, servers, isps, client, leaseCalls, measurements, probes,
                   poolVars, activeClients, monitor, checks, shutdown, stopRequested>>

\* ------------------------------------------------------ processMeasurements
\* lines 405-418: the number of workers to start
maxWorkersFor(cfg, nServers) ==
    LET configured == IF cfg.provider = "proxyrack" \/ cfg.provider = "soax"
                      THEN cfg.max_workers
                      ELSE 1
    IN  IF configured > nServers THEN nServers ELSE configured

\* lines 405-437: start the workers, queue one job per server, close(jobs)
Dispatch ==
    /\ pc = "dispatch"
    /\ LET n == maxWorkersFor(config, Len(servers))
       IN  /\ started' = n
           /\ wg' = n
           /\ workers' = [w \in WorkerIDs |->
                            IF w <= n THEN [IdleWorker EXCEPT !.pc = "recv"] ELSE IdleWorker]
    /\ jobs' = servers
    /\ jobsClosed' = TRUE
    /\ results' = <<>>
    /\ resultsClosed' = FALSE
    /\ errorCount' = 0
    /\ slotLog' = Append(slotLog, SlotEntry("dispatched"))
    /\ pc' = "drain"
    /\ UNCHANGED <<providerCall, cfgVars, envVars, servers, isps, ispIdx, slot, ret, client, savedClient,
                   leaseCalls, persistCalls, storeVars, nextSession, passLog, monVars>>

\* lines 440-443: wg.Wait(); close(results)
CloseResults ==
    /\ pc = "drain"
    /\ wg = 0
    /\ ~resultsClosed
    /\ resultsClosed' = TRUE
    /\ UNCHANGED <<providerCall, cfgVars, envVars, runVars, storeVars, jobs, jobsClosed, results, wg,
                   workers, errorCount, started, nextSession, passLog, monVars>>

\* a result loop that drops the errors it receives
DrainWithoutCount ==
    /\ pc = "drain"
    /\ results # <<>>
    /\ errorCount' = errorCount
    /\ results' = Tail(results)
    /\ UNCHANGED <<providerCall, cfgVars, envVars, runVars, storeVars, jobs, jobsClosed, resultsClosed, wg,
                   workers, started, nextSession, passLog, monVars>>

\* lines 446-456: one iteration of `for err := range results`
Drain ==
    /\ pc = "drain"
    /\ results # <<>>
    /\ errorCount' = IF Head(results) # "" THEN errorCount + 1 ELSE errorCount
    /\ results' = Tail(results)
    /\ UNCHANGED <<providerCall, cfgVars, envVars, runVars, storeVars, jobs, jobsClosed, resultsClosed, wg,
                   workers, started, nextSession, passLog, monVars>>

\* line 447 on a closed, empty channel: processMeasurements returns and the
\* loops of RunMeasurements go on
DispatchReturn ==
    /\ pc = "drain"
    /\ results = <<>>
    /\ resultsClosed
    /\ NextSlot
    /\ UNCHANGED <<providerCall, cfgVars, envVars, servers, isps, client, savedClient, leaseCalls,
                   persistCalls, slotLog, storeVars, poolVars, monVars>>

\* ------------------------------------------------------------------ worker
\* line 397-398: receive a job; measureServer(*job.client, job.server) starts
\* with a copy of the client struct and a fresh session id (line 185)
WorkerRecv(w) ==
    /\ workers[w].pc = "recv"
    /\ jobs # <<>>
    /\ jobs' = Tail(jobs)
    /\ workers' = [workers EXCEPT ![w] =
                      [pc |-> "initial", client |-> clients[savedClient], server |-> Head(jobs),
                       sessionID |-> newSessionID(nextSession, clients[savedClient], Head(jobs)),
                       k |-> 1, plan |-> <<>>, retryCount |-> 0,
                       err |-> "", startedAt |-> now]]
    /\ nextSession' = nextSession + 1
    /\ passLog' = Append(passLog,
                          [ClientID |-> clients[savedClient].ID, ServerID |-> Head(jobs).ID,
                           SessionID |-> newSessionID(nextSession, clients[savedClient], Head(jobs))])
    /\ measurements' = Append(measurements, <<>>)
    /\ probes' = Append(probes, <<>>)
    /\ UNCHANGED <<providerCall, cfgVars, envVars, runVars, dbClients, jobsClosed, results, resultsClosed, wg,
                   errorCount, started, monVars>>

\* a worker that returns without wg.Done()
WorkerExitWithoutDone(w) ==
    /\ workers[w].pc = "recv"
    /\ jobs = <<>>
    /\ jobsClosed
    /\ workers' = [workers EXCEPT ![w].pc = "exited"]
    /\ UNCHANGED <<providerCall, cfgVars, envVars, runVars, storeVars, jobs, jobsClosed, results,
                   resultsClosed, wg, errorCount, started, nextSession, passLog, monVars>>

\* line 397 on a closed, empty channel, then the deferred wg.Done()
WorkerExit(w) ==
    /\ workers[w].pc = "recv"
    /\ jobs = <<>>
    /\ jobsClosed
    /\ workers' = [workers EXCEPT ![w].pc = "exited"]
    /\ wg' = wg - 1
    /\ UNCHANGED <<providerCall, cfgVars, envVars, runVars, storeVars, jobs, jobsClosed, results,
                   resultsClosed, errorCount, started, nextSession, passLog, monVars>>

\* line 399: results <- err, on a channel that holds len(servers) values
WorkerSend(w) ==
    /\ workers[w].pc = "done"
    /\ Len(results) < Len(servers)
    /\ results' = Append(results, workers[w].err)
    /\ workers' = [workers EXCEPT ![w] = [IdleWorker EXCEPT !.pc = "recv"]]
    /\ UNCHANGED <<providerCall, cfgVars, envVars, runVars, storeVars, jobs, jobsClosed, resultsClosed, wg,
                   errorCount, started, nextSession, passLog, monVars>>

\* number of environment events one probe uses
ProbeCost(outcome, insertOK) ==
    (IF outcome # ReportOK THEN 1 ELSE 0) + (IF insertOK THEN 0 ELSE 1)

\* ----------------------------------------------------------- measureServer
\* lines 190-193 with performMeasurement (316-330): the retry-0 probe of
\* protocol number k; an error ends the pass
InitialProbe(w) ==
    /\ workers[w].pc = "initial"
    /\ LET p == workers[w]
           protocol == Protocols[p.k]
       IN  \E outcome \in ProbeOutcomes, insertOK \in BOOLEAN :
           LET cost == IF shouldSkipProtocol(protocol, p.server) THEN 0
                       ELSE ProbeCost(outcome, insertOK)
               r == performProtocolMeasurement(p.client, p.server, p.sessionID, 0, "", NilLink,
                                               protocol, outcome, insertOK, measurements, probes)
           IN  /\ events + cost <= MaxEvents
               /\ shouldSkipProtocol(protocol, p.server) => outcome = ReportOK /\ insertOK
               /\ events' = events + cost
               /\ measurements' = r.measurements
               /\ probes' = r.probes
               /\ dbServers' = IF r.probed
                                THEN serversAfterMeasurement(dbServers, p.server, protocol, outcome)
                                ELSE dbServers
               /\ workers' = [workers EXCEPT ![w] =
                    IF r.err # ""
                    THEN [p EXCEPT !.pc = "done", !.err = "initial measurement failed"]
                    ELSE IF p.k < Len(Protocols)
                         THEN [p EXCEPT !.k = p.k + 1]
                         ELSE [p EXCEPT !.pc = "readback"]]
    /\ UNCHANGED <<providerCall, settings, prefixes, config, providerISPs, now, runVars, dbClients, jobs, jobsClosed, results, resultsClosed,
                   wg, errorCount, started, nextSession, passLog, monVars>>

\* lines 195-210: read the retry-0 rows back, classify them, and enter the
\* range over the map in one of its orders
ReadBack(w) ==
    /\ workers[w].pc = "readback"
    /\ LET p == workers[w]
       IN  \E readOK \in BOOLEAN :
           /\ ~readOK => events < MaxEvents
           /\ events' = IF readOK THEN events ELSE events + 1
           /\ IF ~readOK
              THEN workers' = [workers EXCEPT ![w] =
                       [p EXCEPT !.pc = "done", !.err = "failed to retrieve initial measurements"]]
              ELSE LET initialResults ==
                           initialResultsOf(GetMeasurementsBySession(measurements, p.sessionID, 0))
                   IN  \E order \in RangeOrders(initialResults) :
                       LET plan == retriesOf(order, initialResults, prefixes)
                       IN  workers' = [workers EXCEPT ![w] =
                               IF plan = <<>>
                               THEN [p EXCEPT !.pc = "done", !.err = ""]
                               ELSE [p EXCEPT !.pc = "retry", !.plan = plan]]
    /\ UNCHANGED <<providerCall, cfgVars, now, runVars, storeVars, jobs, jobsClosed, results, resultsClosed,
                   wg, errorCount, started, nextSession, passLog, monVars>>

\* a retry loop that returns the error of a retry
retryErrorReturned(err) == err

\* lines 219-223 and 233-238: the error of a retry is logged; nothing of it is
\* returned
retryError(err) == ""

\* lines 217-239: the next retry of the loop, bare (219) or with a prefix
\* (227-233); its error is logged and the loop goes on
RetryProbe(w) ==
    /\ workers[w].pc = "retry"
    /\ LET p == workers[w]
           step == Head(p.plan)
           retryCount == nextRetryCount(p.retryCount)
           newAccessLink == p.server.FullAccessLink \o "?prefix=" \o step.prefix
           override == IF step.withPrefix THEN LinkPtr(newAccessLink) ELSE NilLink
       IN  \E outcome \in ProbeOutcomes, insertOK \in BOOLEAN :
           LET cost == IF shouldSkipProtocol(step.protocol, p.server) THEN 0
                       ELSE ProbeCost(outcome, insertOK)
               r == performProtocolMeasurement(p.client, p.server, p.sessionID, retryCount,
                                               step.prefix, override, step.protocol, outcome,
                                               insertOK, measurements, probes)
           IN  /\ events + cost <= MaxEvents
               /\ shouldSkipProtocol(step.protocol, p.server) => outcome = ReportOK /\ insertOK
               /\ events' = events + cost
               /\ measurements' = r.measurements
               /\ probes' = r.probes
               /\ dbServers' = IF r.probed
                                THEN serversAfterMeasurement(dbServers, p.server, step.protocol, outcome)
                                ELSE dbServers
               /\ workers' = [workers EXCEPT ![w] =
                    IF retryError(r.err) # ""
                    THEN [p EXCEPT !.pc = "done", !.err = retryError(r.err), !.plan = <<>>,
                                   !.retryCount = retryCount]
                    ELSE IF Tail(p.plan) = <<>>
                    THEN [p EXCEPT !.pc = "done", !.err = "", !.plan = <<>>,
                                   !.retryCount = retryCount]
                    ELSE [p EXCEPT !.plan = Tail(p.plan), !.retryCount = retryCount]]
    /\ UNCHANGED <<providerCall, settings, prefixes, config, providerISPs, now, runVars, dbClients, jobs, jobsClosed, results, resultsClosed,
                   wg, errorCount, started, nextSession, passLog, monVars>>

\* --------------------------------------------------------- Session Monitor
\* the monitor of the freshly persisted client is started, and the client
\* registered as active, at the place the design gives it: after the
\* transport string is stored and before the dispatch. RunMeasurements
\* (lines 139-141) makes no such call and goes straight on to
\* processMeasurements, so Dispatch does not wait for this step.
StartMonitoring ==
    /\ pc = "dispatch"
    /\ savedClient = Len(monitor) + 1
    /\ shutdown = "idle"
    /\ activeClients' = activeClients \cup {Len(monitor) + 1}
    /\ monitor' = Append(monitor, "running")
    /\ checks' = Append(checks, <<>>)
    /\ UNCHANGED <<providerCall, cfgVars, envVars, runVars, storeVars, poolVars, clients, shutdown,
                   stopRequested>>

\* one timer tick of the monitor of client c: validity check, and on a
\* definitive "invalid" removal, persisted expiration, termination
MonitorTick(c) ==
    /\ monitor[c] = "running"
    /\ c \in activeClients
    /\ events < MaxEvents
    /\ events' = events + 1
    /\ \E fetched \in FetchResults(clients[c]) :
        LET r == IsValidClient(clients[c], fetched, now)
            verdict == IF r.err # "" THEN "error" ELSE IF r.valid THEN "valid" ELSE "invalid"
        IN  /\ clients' = [clients EXCEPT ![c] = r.client]
            /\ checks' = [checks EXCEPT ![c] = Append(@, verdict)]
            /\ IF r.err = "" /\ ~r.valid
               THEN /\ activeClients' = activeClients \ {c}
                    /\ dbClients' = UpdateClientExpiration(dbClients, c, r.client.ExpirationTime)
                    /\ monitor' = [monitor EXCEPT ![c] = "stopped"]
               ELSE UNCHANGED <<activeClients, dbClients, monitor>>
    /\ UNCHANGED <<providerCall, cfgVars, now, runVars, measurements, probes, poolVars, shutdown, stopRequested>>

\* a caller stops the monitoring of client c
StopMonitoring(c) ==
    /\ monitor[c] = "running"
    /\ c \notin stopRequested
    /\ events < MaxEvents
    /\ events' = events + 1
    /\ stopRequested' = stopRequested \cup {c}
    /\ UNCHANGED <<providerCall, cfgVars, now, runVars, storeVars, poolVars, clients, activeClients, monitor,
                   checks, shutdown>>

\* a monitor that does not look at stop requests of single clients
stopObservedOnShutdownOnly(c) == shutdown # "idle"

\* what the monitor of client c finds at a tick: the shutdown signal, or a
\* stop request for c
stopObserved(c) == shutdown # "idle" \/ c \in stopRequested

\* the monitor of client c sees at a tick that it has to end
MonitorObserveStop(c) ==
    /\ c <= Len(monitor)
    /\ monitor[c] = "running"
    /\ stopObserved(c)
    /\ monitor' = [monitor EXCEPT ![c] = IF shutdown # "idle" THEN "cancelled" ELSE "released"]
    /\ UNCHANGED <<providerCall, cfgVars, envVars, runVars, storeVars, poolVars, clients, activeClients,
                   checks, shutdown, stopRequested>>

\* Shutdown is called once RunMeasurements has returned: the signal fires
Shutdown ==
    /\ pc = "done"
    /\ shutdown = "idle"
    /\ events < MaxEvents
    /\ events' = events + 1
    /\ shutdown' = "signalled"
    /\ UNCHANGED <<providerCall, cfgVars, now, runVars, storeVars, poolVars, clients, activeClients,
                   monitor, checks, stopRequested>>

AllMonitorsEnded == \A c \in 1..Len(monitor) : monitor[c] # "running"

\* a Shutdown without grace period: it waits for every monitor
shutdownWaitsForAll(how) == AllMonitorsEnded

\* Shutdown may return: joined when every monitor has ended, timed out when
\* the grace period has elapsed
shutdownMayReturn(how) == how = "joined" => AllMonitorsEnded

\* Shutdown returns
ShutdownReturn ==
    /\ shutdown = "signalled"
    /\ \E how \in {"joined", "timedout"} :
        /\ shutdownMayReturn(how)
        /\ shutdown' = how
    /\ UNCHANGED <<providerCall, cfgVars, envVars, runVars, storeVars, poolVars, clients, activeClients,
                   monitor, checks, stopRequested>>

\* ------------------------------------------------------------------- clock
Tick ==
    /\ now < MaxTime
    /\ events < MaxEvents
    /\ now' = now + 1
    /\ events' = events + 1
    /\ UNCHANGED <<providerCall, cfgVars, runVars, storeVars, poolVars, monVars>>

\* -------------------------------------------------------------------- Next
Next ==
    \/ measureCmd
    \/ ResolveServers
    \/ ResolveISPs
    \/ Lease
    \/ Persist
    \/ StartMonitoring
    \/ Dispatch
    \/ CloseResults
    \/ Drain
    \/ DispatchReturn
    \/ \E w \in WorkerIDs : WorkerRecv(w)
    \/ \E w \in WorkerIDs : WorkerExit(w)
    \/ \E w \in WorkerIDs : WorkerSend(w)
    \/ \E w \in WorkerIDs : InitialProbe(w)
    \/ \E w \in WorkerIDs : ReadBack(w)
    \/ \E w \in WorkerIDs : RetryProbe(w)
    \/ \E c \in 1..Len(monitor) : MonitorTick(c)
    \/ \E c \in 1..Len(monitor) : StopMonitoring(c)
    \/ \E c \in MonitorIDs : MonitorObserveStop(c)
    \/ Shutdown
    \/ ShutdownReturn
    \/ Tick

Spec == Init /\ [][Next]_vars

\* GetClientForISP on its own: every maxRetries up to MaxLeaseRetries against
\* every sequence of attempt outcomes, before any run
LeaseInit ==
    /\ dbServers = <<>>
    /\ settings = [ISP |-> "", ServerID |-> 0, ServerIDs |-> <<>>, ServerNames |-> <<>>,
                   MaxClients |-> 1, MaxRetries |-> 1]
    /\ providerISPs = <<>>
    /\ prefixes = <<>>
    /\ config = [provider |-> "soax", max_workers |-> 1, allowed_ports |-> <<>>]
    /\ \E maxRetries \in 0..MaxLeaseRetries :
         providerCall \in [op : {"GetClientForISP"}, isp : {AllISPs[1]},
                           maxRetries : {maxRetries}, outcomes : AttemptSeqs(maxRetries),
                           result : {NoLeaseResult}]
    /\ NoRunYet

CallGetClientForISP ==
    /\ providerCall.op = "GetClientForISP"
    /\ providerCall.result = NoLeaseResult
    /\ providerCall' = [providerCall EXCEPT !.result =
                       GetClientForISP(providerCall.isp, providerCall.maxRetries,
                                       providerCall.outcomes, 1, now)]
    /\ UNCHANGED <<cfgVars, envVars, runVars, storeVars, poolVars, monVars>>

LeaseSpec == LeaseInit /\ [][CallGetClientForISP]_vars

\* shuffleStrings on its own: every slice of at most MaxShuffleLen ISP names,
\* repeated names included, before any run; `slice` is shuffled in place and
\* `given` keeps what the caller passed
ShuffleInit ==
    /\ dbServers = <<>>
    /\ settings = [ISP |-> "", ServerID |-> 0, ServerIDs |-> <<>>, ServerNames |-> <<>>,
                   MaxClients |-> 1, MaxRetries |-> 1]
    /\ providerISPs = <<>>
    /\ prefixes = <<>>
    /\ config = [provider |-> "soax", max_workers |-> 1, allowed_ports |-> <<>>]
    /\ \E n \in 0..MaxShuffleLen : \E given \in [1..n -> Range(AllISPs)] :
         providerCall = [op |-> "shuffleStrings", given |-> given, slice |-> given,
                         returned |-> FALSE]
    /\ NoRunYet

CallShuffleStrings ==
    /\ providerCall.op = "shuffleStrings"
    /\ ~providerCall.returned
    /\ \E shuffled \in shuffleStrings(providerCall.slice) :
         providerCall' = [providerCall EXCEPT !.slice = shuffled, !.returned = TRUE]
    /\ UNCHANGED <<cfgVars, envVars, runVars, storeVars, poolVars, monVars>>

ShuffleSpec == ShuffleInit /\ [][CallShuffleStrings]_vars

\* the clients a validity check can be given: leased on some IP, for some ISP,
\* with some expiration time
LeasedClients ==
    { [LeasedClient(isp, ip, t) EXCEPT !.ID = 1,
                                       !.ProxyURL = BuildTransportURL(LeasedClient(isp, ip, t))] :
        isp \in {AllISPs[1], AllISPs[2]}, ip \in 1..2, t \in 0..MaxTime }

\* IsValidClient on its own: every such client against every answer of the
\* egress check, at every clock value, before any run
ValidityInit ==
    /\ dbServers = <<>>
    /\ settings = [ISP |-> "", ServerID |-> 0, ServerIDs |-> <<>>, ServerNames |-> <<>>,
                   MaxClients |-> 1, MaxRetries |-> 1]
    /\ providerISPs = <<>>
    /\ prefixes = <<>>
    /\ config = [provider |-> "soax", max_workers |-> 1, allowed_ports |-> <<>>]
    /\ providerCall \in [op : {"IsValidClient"}, client : LeasedClients,
                         fetched : [ok : BOOLEAN, IP : 0..2], result : {NoVerdict}]
    /\ NoRunYet

CallIsValidClient ==
    /\ providerCall.op = "IsValidClient"
    /\ providerCall.result = NoVerdict
    /\ providerCall' = [providerCall EXCEPT !.result =
                          IsValidClient(providerCall.client, providerCall.fetched, now)]
    /\ UNCHANGED <<cfgVars, envVars, runVars, storeVars, poolVars, monVars>>

ValiditySpec == ValidityInit /\ [][CallIsValidClient \/ Tick]_vars

\* the runs whose inputs are within MaxLiveVariation of the plainest request
LiveInit ==
    /\ Init
    /\ Variation(settings, dbServers, providerISPs, prefixes, config) <= MaxLiveVariation

\* every monitor gets its ticks
MonitoredSpec ==
    LiveInit /\ [][Next]_vars /\ \A c \in MonitorIDs : WF_vars(MonitorObserveStop(c))

\* the grace timer of Shutdown runs; a monitor may hang for ever
ShutdownSpec == LiveInit /\ [][Next]_vars /\ WF_vars(ShutdownReturn)

\* the steps of processMeasurements and of its worker goroutines
PoolNext ==
    \/ CloseResults
    \/ Drain
    \/ DispatchReturn
    \/ \E w \in WorkerIDs : WorkerRecv(w)
    \/ \E w \in WorkerIDs : WorkerExit(w)
    \/ \E w \in WorkerIDs : WorkerSend(w)
    \/ \E w \in WorkerIDs : InitialProbe(w)
    \/ \E w \in WorkerIDs : ReadBack(w)
    \/ \E w \in WorkerIDs : RetryProbe(w)

\* the runs that acquire at most one client, and so make at most one dispatch
SingleClientInit ==
    /\ Init
    /\ settings.MaxClients <= 1
    /\ Len(providerISPs) <= 1

\* the goroutines of the pool are scheduled whenever one of them can run;
\* nothing is assumed of the monitors, which may stop for ever at any point
PoolSpec == SingleClientInit /\ [][Next]_vars /\ WF_vars(PoolNext)

\* ================================================================== claims
SessionIDs == 1..Len(measurements)

ProtocolSet == Range(Protocols)

ServerByID(id) == CHOOSE r \in Range(dbServers) : r.ID = id

PassStates == {"initial", "readback", "retry", "done"}

SuccessRow(m) == m.ErrorMsg = "" /\ m.ErrorOp = "success"

\* retry-0 rows of protocol proto among the first n rows of session sid
Retry0Before(sid, n, proto) ==
    Cardinality({ j \in 1..n : /\ measurements[sid][j].RetryNumber = 0
                                /\ measurements[sid][j].Protocol = proto })

TotalRows == Len(Rows(measurements))

TotalProbes == Len(Rows(probes))

\* ---- C1
CountCalls(ii) == Len(SelectSeq(leaseCalls, LAMBDA x : x = ii))

\* C1: a run with a non-empty server set and a non-empty ISP list makes
\* exactly len(isps) * MaxClients lease calls, MaxClients for each ISP,
\* whichever leases and client persists fail.
C1_LeaseCallsPerISP ==
    (pc = "done" /\ servers # <<>> /\ isps # <<>>) =>
        /\ Len(leaseCalls) = Len(isps) * settings.MaxClients
        /\ \A ii \in 1..Len(isps) : CountCalls(ii) = settings.MaxClients

C1_Witness ==
    /\ pc = "done"
    /\ Len(isps) = 2
    /\ settings.MaxClients = 2
    /\ Len(leaseCalls) = 4
    /\ persistCalls < Len(leaseCalls)
    /\ Len(dbClients) < persistCalls

\* ---- C2
\* C2 as stated: when a row with retry number >= 1 is created in a session,
\* exactly one retry-0 row of each of tcp and udp already exists in it.
C2_Retry0BothProtocols ==
    \A sid \in SessionIDs : \A i \in 1..Len(measurements[sid]) :
        measurements[sid][i].RetryNumber >= 1 =>
            \A proto \in ProtocolSet : Retry0Before(sid, i - 1, proto) = 1

\* C2 amended: when a row with retry number >= 1 is created in a session,
\* exactly one retry-0 row already exists in it for each protocol that the
\* server's last-known error did not make the pass skip, and none for a
\* skipped protocol.
C2_Retry0UnskippedProtocols ==
    \A sid \in SessionIDs : \A i \in 1..Len(measurements[sid]) :
        measurements[sid][i].RetryNumber >= 1 =>
            \A proto \in ProtocolSet :
                Retry0Before(sid, i - 1, proto) =
                    IF shouldSkipProtocol(proto, ServerByID(measurements[sid][i].ServerID))
                    THEN 0 ELSE 1

C2_Witness ==
    \E sid \in SessionIDs : \E i \in 1..Len(measurements[sid]) :
        /\ measurements[sid][i].RetryNumber >= 1
        /\ measurements[sid][i].Protocol = "udp"
        /\ ServerByID(measurements[sid][i].ServerID).TCPErrorMsg # ""

\* ---- C3
\* C3: a protocol whose retry-0 row records success (empty message, tag
\* "success") gets no row with retry number >= 1 in that session and no
\* retry probe.
C3_NoRetryAfterSuccess ==
    \A sid \in SessionIDs : \A proto \in ProtocolSet :
        (\E i \in 1..Len(measurements[sid]) :
            /\ measurements[sid][i].RetryNumber = 0
            /\ measurements[sid][i].Protocol = proto
            /\ SuccessRow(measurements[sid][i]))
        => /\ \A j \in 1..Len(measurements[sid]) :
                ~(measurements[sid][j].Protocol = proto /\ measurements[sid][j].RetryNumber >= 1)
           /\ \A j \in 1..Len(probes[sid]) :
                ~(probes[sid][j].Protocol = proto /\ probes[sid][j].RetryNumber >= 1)

C3_Witness ==
    \E sid \in SessionIDs :
        /\ \E i \in 1..Len(measurements[sid]) :
            /\ measurements[sid][i].RetryNumber = 0
            /\ measurements[sid][i].Protocol = "tcp"
            /\ SuccessRow(measurements[sid][i])
        /\ \E j \in 1..Len(probes[sid]) :
            probes[sid][j].Protocol = "udp" /\ probes[sid][j].RetryNumber >= 1

\* ---- C4
BareTransport(q) ==
    clients[q.ClientID].ProxyURL \o "|" \o ServerByID(q.ServerID).FullAccessLink

\* C4: no udp row carries a prefix and every udp probe goes to the unmutated
\* access link of its server.
C4_UdpNeverPrefixed ==
    \A sid \in SessionIDs :
        /\ \A i \in 1..Len(measurements[sid]) :
            measurements[sid][i].Protocol = "udp" => measurements[sid][i].PrefixUsed = ""
        /\ \A j \in 1..Len(probes[sid]) :
            probes[sid][j].Protocol = "udp" =>
                /\ probes[sid][j].Prefix = ""
                /\ probes[sid][j].Transport = BareTransport(probes[sid][j])

\* ---- C5
TcpRetry0Failed(sid) ==
    \E j \in 1..Len(probes[sid]) :
        /\ probes[sid][j].Protocol = "tcp"
        /\ probes[sid][j].RetryNumber = 0
        /\ probes[sid][j].Outcome # ReportOK

TcpRetryProbes(sid) ==
    LET sel == SelectSeq(probes[sid], LAMBDA q : q.Protocol = "tcp" /\ q.RetryNumber >= 1)
    IN  [j \in 1..Len(sel) |-> [Prefix |-> sel[j].Prefix, Transport |-> sel[j].Transport]]

ExpectedTcpRetries(p) ==
    <<[Prefix |-> "", Transport |-> p.client.ProxyURL \o "|" \o p.server.FullAccessLink]>>
    \o [i \in 1..Len(prefixes) |->
          [Prefix |-> prefixes[i],
           Transport |-> p.client.ProxyURL \o "|" \o p.server.FullAccessLink
                         \o "?prefix=" \o prefixes[i]]]

\* C5 as stated: a finished pass whose tcp retry-0 probe failed has issued
\* one bare tcp retry and then one tcp retry per prefix, in configuration
\* order, each on the link mutated by its prefix.
C5_TcpRetriesAfterFailure ==
    \A w \in WorkerIDs :
        (workers[w].pc = "done" /\ TcpRetry0Failed(workers[w].sessionID)) =>
            TcpRetryProbes(workers[w].sessionID) = ExpectedTcpRetries(workers[w])

\* C5 amended: the same, for a pass that returns no error, that is, whose
\* initial round was persisted and read back without a Store error.
C5_TcpRetriesAfterRecordedFailure ==
    \A w \in WorkerIDs :
        (workers[w].pc = "done" /\ workers[w].err = "" /\ TcpRetry0Failed(workers[w].sessionID)) =>
            TcpRetryProbes(workers[w].sessionID) = ExpectedTcpRetries(workers[w])

C5_Witness ==
    \E w \in WorkerIDs :
        /\ workers[w].pc = "done"
        /\ workers[w].err = ""
        /\ TcpRetry0Failed(workers[w].sessionID)
        /\ Len(prefixes) = 2
        /\ Len(TcpRetryProbes(workers[w].sessionID)) = 3

\* ---- C6
\* C6: a job whose client had expired when the job started returns an
\* Expired error, calls no probe and writes no row.
C6_ExpiredClientNotProbed ==
    \A w \in WorkerIDs :
        (workers[w].pc \in PassStates /\ workers[w].client.ExpirationTime < workers[w].startedAt) =>
            /\ probes[workers[w].sessionID] = <<>>
            /\ measurements[workers[w].sessionID] = <<>>
            /\ workers[w].pc = "done" => workers[w].err = "client expired"

\* ---- C7
Last(sq) == sq[Len(sq)]

MonitorStoppedState ==
    \A c \in 1..Len(monitor) :
        monitor[c] = "stopped" =>
            /\ c \notin activeClients
            /\ dbClients[c].ExpirationTime <= now

MonitorInvalidStep ==
    \A c \in 1..Len(monitor) :
        /\ (checks'[c] # checks[c] /\ Last(checks'[c]) = "invalid") =>
                /\ c \notin activeClients'
                /\ dbClients'[c].ExpirationTime <= now'
                /\ monitor'[c] = "stopped"
        /\ monitor[c] = "stopped" => (monitor'[c] = "stopped" /\ checks'[c] = checks[c])

PassSucceeded(c, srv) ==
    \E sid \in SessionIDs : \A proto \in ProtocolSet :
        \E i \in 1..Len(measurements[sid]) :
            /\ measurements[sid][i].ClientID = c
            /\ measurements[sid][i].ServerID = srv.ID
            /\ measurements[sid][i].Protocol = proto
            /\ measurements[sid][i].RetryNumber = 0
            /\ SuccessRow(measurements[sid][i])

AllSucceeded ==
    /\ pc = "done"
    /\ ret = "nil"
    /\ Len(dbClients) = Len(leaseCalls)
    /\ \A c \in 1..Len(dbClients) : \A s \in 1..Len(servers) : PassSucceeded(c, servers[s])

\* C8: when every lease and client persist succeeded and, for every client
\* and server, both protocols are recorded as succeeded at retry 0, the run
\* has written I * C * S * 2 rows, all with retry number 0.
C8_RowCountAllSucceed ==
    AllSucceeded =>
        /\ TotalRows = Len(isps) * settings.MaxClients * Len(servers) * 2
        /\ \A sid \in SessionIDs : \A i \in 1..Len(measurements[sid]) :
            measurements[sid][i].RetryNumber = 0

C8_Witness ==
    /\ AllSucceeded
    /\ Len(isps) = 2
    /\ settings.MaxClients = 2
    /\ TotalRows = 8

\* ---- C9
\* C9: with an empty resolved server set the run returns an error and makes
\* no lease call, no client persist and no probe.
C9_NoServersIsFatal ==
    (pc \notin {"cmd", "rejected", "start"} /\ servers = <<>>) =>
        /\ pc = "done"
        /\ ret = "error"
        /\ leaseCalls = <<>>
        /\ persistCalls = 0
        /\ TotalProbes = 0
        /\ TotalRows = 0

C9_Witness ==
    /\ pc = "done"
    /\ ret = "error"
    /\ servers = <<>>
    /\ events = 0
    /\ settings.ServerID = 0
    /\ settings.ServerIDs = <<>>
    /\ settings.ServerNames = <<>>
    /\ Len(dbServers) = 1

\* ---- C10
\* C10: a run whose ISP list came back empty without an error returns an
\* error.
C10_NoISPIsFatal ==
    (pc = "done" /\ servers # <<>> /\ isps = <<>>) => ret = "error"

\* ---- C11
\* the client slots of the run, in loop order
AllSlots == [k \in 1..(Len(isps) * settings.MaxClients) |->
               [isp |-> ((k - 1) \div settings.MaxClients) + 1,
                slot |-> (k - 1) % settings.MaxClients]]

\* C11: a run with a non-empty server set and ISP list returns no error whatever
\* leases and client persists fail; every client slot of every ISP is
\* attempted, in order, exactly once; a slot whose lease or persist failed
\* gets no dispatch, and the dispatches are those of the persisted clients.
C11_FailedSlotSkippedOnly ==
    (pc = "done" /\ servers # <<>> /\ isps # <<>>) =>
        /\ ret = "nil"
        /\ [k \in 1..Len(slotLog) |-> [isp |-> slotLog[k].isp, slot |-> slotLog[k].slot]] = AllSlots
        /\ Len(SelectSeq(slotLog, LAMBDA e : e.outcome = "dispatched")) = Len(dbClients)
        /\ Len(SelectSeq(slotLog, LAMBDA e : e.outcome = "lease failed"))
              = Len(leaseCalls) - persistCalls
        /\ Len(SelectSeq(slotLog, LAMBDA e : e.outcome = "persist failed"))
              = persistCalls - Len(dbClients)

C11_Witness ==
    /\ pc = "done"
    /\ ret = "nil"
    /\ Len(slotLog) = 2
    /\ slotLog[1].outcome = "lease failed"
    /\ slotLog[2].outcome = "lease failed"
    /\ dbClients = <<>>

\* ---- C12
\* the dispatch of client cid has returned
DispatchReturned(cid) ==
    \/ cid < savedClient
    \/ cid = savedClient /\ pc \notin {"dispatch", "drain"}

\* number of measureServer calls made for client cid and server srv
PassCount(cid, srv) ==
    Cardinality({ n \in 1..Len(passLog) :
                    passLog[n].ClientID = cid /\ passLog[n].ServerID = srv.ID })

\* C12: once the dispatch of a client has returned, measureServer has been
\* called exactly once for that client and each server of the list, and
\* never more than once while the dispatch is under way.
C12_OnePassPerServer ==
    \A cid \in 1..Len(dbClients) : \A i \in 1..Len(servers) :
        /\ PassCount(cid, servers[i]) <= 1
        /\ DispatchReturned(cid) => PassCount(cid, servers[i]) = 1

\* ---- C13
\* C13: outside a dispatch (in particular at every lease attempt) no job is
\* queued or in progress, and the jobs in progress during a dispatch all
\* belong to the client being dispatched.
C13_DispatchWaitsForJobs ==
    /\ pc \notin {"dispatch", "drain"} =>
          /\ jobs = <<>>
          /\ \A w \in WorkerIDs : workers[w].pc \notin PassStates
    /\ \A w \in WorkerIDs :
          workers[w].pc \in PassStates => workers[w].client.ID = savedClient

\* ---- C14
Min(a, b) == IF a < b THEN a ELSE b

InProgress == Cardinality({ w \in WorkerIDs : workers[w].pc \in PassStates })

\* C14: a dispatch starts min(GetMaxWorkers, len(servers)) workers, and at no
\* moment are more than GetMaxWorkers jobs in progress.
C14_PoolSizeIsAdvertisedMin ==
    /\ pc = "drain" => started = Min(GetMaxWorkers(config), Len(servers))
    /\ InProgress <= GetMaxWorkers(config)

\* ---- C15
\* C15 as stated: within a session (one client, one server) the retry
\* numbers of the rows are strictly increasing in creation order.
C15_RetryNumbersStrictlyIncreasing ==
    \A sid \in SessionIDs : \A i, j \in 1..Len(measurements[sid]) :
        i < j => measurements[sid][i].RetryNumber < measurements[sid][j].RetryNumber

\* C15 amended: within a session the retry numbers never decrease in
\* creation order; the rows with a retry number >= 1 carry strictly
\* increasing, hence unique, numbers; retry number 0 is carried by at most
\* one row per protocol.
C15_RetryNumbersIncreaseAfterInitialRound ==
    \A sid \in SessionIDs : \A i, j \in 1..Len(measurements[sid]) :
        i < j =>
            LET a == measurements[sid][i]
                b == measurements[sid][j]
            IN  /\ a.RetryNumber <= b.RetryNumber
                /\ b.RetryNumber >= 1 => a.RetryNumber < b.RetryNumber
                /\ b.RetryNumber = 0 => a.Protocol # b.Protocol

C15_Witness ==
    \E sid \in SessionIDs :
        /\ Len(measurements[sid]) = 4
        /\ [i \in 1..4 |-> measurements[sid][i].RetryNumber] = <<0, 0, 1, 2>>

\* ---- C16
\* the request names a server id or name that no stored server has
MissingRequested ==
    \/ settings.ServerID # 0 /\ \A i \in 1..Len(dbServers) : dbServers[i].ID # settings.ServerID
    \/ \E k \in 1..Len(settings.ServerIDs) :
          \A i \in 1..Len(dbServers) : dbServers[i].ID # settings.ServerIDs[k]
    \/ \E k \in 1..Len(settings.ServerNames) :
          \A i \in 1..Len(dbServers) : dbServers[i].Name # settings.ServerNames[k]

\* C16: when the request names a server that is not stored, the run ends
\* at server resolution with an error: no lease, no probe, no row.
C16_MissingServerIsFatal ==
    (pc \notin {"cmd", "rejected", "start"} /\ MissingRequested) =>
        /\ pc = "done"
        /\ ret = "error"
        /\ leaseCalls = <<>>
        /\ TotalProbes = 0
        /\ TotalRows = 0

\* ---- C17
\* C17: a request with both a server id filter and a server name filter is
\* rejected by the command: RunMeasurements never starts, so no Store,
\* Provider or Prober call is made.
C17_BothFiltersRejected ==
    (Len(settings.ServerIDs) > 0 /\ Len(settings.ServerNames) > 0) =>
        /\ pc \in {"cmd", "rejected"}
        /\ ret = "running"
        /\ servers = <<>>
        /\ isps = <<>>
        /\ leaseCalls = <<>>
        /\ persistCalls = 0
        /\ dbClients = <<>>
        /\ TotalProbes = 0
        /\ TotalRows = 0

C17_Witness ==
    /\ pc = "rejected"
    /\ Len(settings.ServerIDs) > 0
    /\ Len(settings.ServerNames) > 0
    /\ settings.MaxClients > 0

\* ---- C18
MonitorEndsForAReason ==
    \A c \in 1..Len(monitor) :
        (monitor[c] = "running" /\ monitor'[c] # "running") =>
            \/ checks'[c] # checks[c] /\ Last(checks'[c]) = "invalid"
            \/ shutdown # "idle"
            \/ c \in stopRequested

\* C18: once the shutdown signal has fired or monitoring of its client has
\* been stopped, a monitor eventually ends; and a monitor ends only in a
\* step in which it saw its client invalid, or after the shutdown signal,
\* or after monitoring of its client was stopped.
C18_MonitorsEndOnRequestOnly ==
    /\ \A c \in MonitorIDs :
          (c <= Len(monitor) /\ (shutdown # "idle" \/ c \in stopRequested))
              ~> (c <= Len(monitor) /\ monitor[c] # "running")
    /\ [][MonitorEndsForAReason]_vars

C18_Witness ==
    /\ Len(monitor) = 2
    /\ monitor[1] = "released"
    /\ monitor[2] = "cancelled"

\* ---- C19
\* C19: a Shutdown that has been called returns, joined only when every
\* monitor has ended and otherwise on the grace period, whether or not the
\* monitors ever end.
C19_ShutdownReturns ==
    /\ (shutdown = "signalled") ~> (shutdown \in {"joined", "timedout"})
    /\ [](shutdown = "joined" => AllMonitorsEnded)

C19_Witness ==
    /\ shutdown = "timedout"
    /\ \E c \in 1..Len(monitor) : monitor[c] = "running"

\* ---- C20
\* the retry probes of session sid, in issue order
RetryProbesOf(sid) == SelectSeq(probes[sid], LAMBDA q : q.RetryNumber # 0)

\* C20: in every pass the n-th retry probe, tcp and udp retries counted
\* together in issue order, carries retry number n; the initial round
\* (retry number 0) comes before all of them.
C20_SharedRetryCounter ==
    \A sid \in 1..Len(probes) :
        /\ \A n \in 1..Len(RetryProbesOf(sid)) : RetryProbesOf(sid)[n].RetryNumber = n
        /\ \A i, j \in 1..Len(probes[sid]) :
              (i < j /\ probes[sid][j].RetryNumber = 0) => probes[sid][i].RetryNumber = 0

C20_Witness ==
    \E sid \in 1..Len(probes) :
        /\ Len(RetryProbesOf(sid)) = 2
        /\ RetryProbesOf(sid)[1].Protocol # RetryProbesOf(sid)[2].Protocol
        /\ RetryProbesOf(sid)[2].RetryNumber = 2

\* ---- C21
\* a retry probe of protocol proto was made in session sid
Retried(sid, proto) ==
    \E j \in 1..Len(probes[sid]) :
        probes[sid][j].Protocol = proto /\ probes[sid][j].RetryNumber >= 1

\* the Store holds a retry-0 row of session sid and protocol proto that
\* records a failure
StoredFailure(sid, proto) ==
    \E i \in 1..Len(measurements[sid]) :
        /\ measurements[sid][i].Protocol = proto
        /\ measurements[sid][i].RetryNumber = 0
        /\ ~SuccessRow(measurements[sid][i])

\* every retry probe of a session comes after the initial probe and the
\* stored retry-0 row of each protocol the pass did not skip
RetriesFollowInitialRound ==
    \A w \in WorkerIDs :
        LET p == workers[w]
        IN  (p.pc \in PassStates /\ (p.pc = "retry" \/ RetryProbesOf(p.sessionID) # <<>>)) =>
                \A proto \in ProtocolSet :
                    ~shouldSkipProtocol(proto, p.server) =>
                        /\ Retry0Before(p.sessionID, Len(measurements[p.sessionID]), proto) = 1
                        /\ \E j \in 1..Len(probes[p.sessionID]) :
                              /\ probes[p.sessionID][j].Protocol = proto
                              /\ probes[p.sessionID][j].RetryNumber = 0
                              /\ \A k \in 1..j : probes[p.sessionID][k].RetryNumber = 0

\* C21 as stated: retries are made only after the initial round of the pass
\* is stored, and a finished pass has retried exactly the protocols whose
\* stored retry-0 row of its session records a failure.
C21_RetryIffStoredFailure ==
    /\ RetriesFollowInitialRound
    /\ \A w \in WorkerIDs :
          workers[w].pc = "done" =>
              \A proto \in ProtocolSet :
                  Retried(workers[w].sessionID, proto) <=> StoredFailure(workers[w].sessionID, proto)

\* C21 amended: the same, for a pass that returns no error, that is, whose
\* initial round was persisted and read back without a Store error; a pass
\* that returns an error has made no retry.
C21_RetryIffFailureReadBack ==
    /\ RetriesFollowInitialRound
    /\ \A w \in WorkerIDs :
          workers[w].pc = "done" =>
              \A proto \in ProtocolSet :
                  IF workers[w].err = ""
                  THEN Retried(workers[w].sessionID, proto)
                           <=> StoredFailure(workers[w].sessionID, proto)
                  ELSE ~Retried(workers[w].sessionID, proto)

C21_Witness ==
    \E w \in WorkerIDs :
        /\ workers[w].pc = "done"
        /\ workers[w].err = ""
        /\ Retried(workers[w].sessionID, "udp")
        /\ ~Retried(workers[w].sessionID, "tcp")
        /\ Len(measurements[workers[w].sessionID]) >= 3

\* ---- C22
\* the server's last-known error for the protocol is non-empty and is not an
\* error of the connect operation
KnownBroken(proto, server) ==
    \/ proto = "tcp" /\ server.TCPErrorMsg # "" /\ server.TCPErrorOp # "connect"
    \/ proto = "udp" /\ server.UDPErrorMsg # "" /\ server.UDPErrorOp # "connect"

\* the initial round of session sid made a probe, or stored a row, for proto
InitiallyProbed(sid, proto) ==
    \/ \E j \in 1..Len(probes[sid]) :
          probes[sid][j].Protocol = proto /\ probes[sid][j].RetryNumber = 0
    \/ \E i \in 1..Len(measurements[sid]) :
          measurements[sid][i].Protocol = proto /\ measurements[sid][i].RetryNumber = 0

\* C22: a pass that has completed its initial round has skipped a protocol
\* (no probe, no row) exactly when the server's last-known error for it is
\* non-empty and not a "connect" error; with a "connect" error the protocol
\* was probed.
C22_SkipUnlessConnect ==
    \A w \in WorkerIDs :
        workers[w].pc \in {"readback", "retry"} =>
            \A proto \in ProtocolSet :
                ~InitiallyProbed(workers[w].sessionID, proto) <=> KnownBroken(proto, workers[w].server)

\* ---- C23
\* row m records what the Prober returned, by the case that applies
Classified(outcome, m) ==
    IF outcome.err # ""
    THEN m.ErrorOp = "fail" /\ m.ErrorMsg = outcome.err
    ELSE IF outcome.hasError
         THEN m.ErrorOp = outcome.Op /\ m.ErrorMsg = outcome.Msg
         ELSE m.ErrorOp = "success" /\ m.ErrorMsg = ""

\* every stored row is the row of one Prober call of its session, and is
\* classified by what that call returned
RowsClassified ==
    \A sid \in SessionIDs : \A i \in 1..Len(measurements[sid]) :
        LET m == measurements[sid][i]
            calls == { j \in 1..Len(probes[sid]) :
                         /\ probes[sid][j].Protocol = m.Protocol
                         /\ probes[sid][j].RetryNumber = m.RetryNumber }
        IN  /\ Cardinality(calls) = 1
            /\ \A j \in calls : Classified(probes[sid][j].Outcome, m)

\* a step with a Prober call appends the row of that call to its session,
\* whatever the call returned, unless the Store refused the row (one more
\* environment event than the call itself accounts for)
ProbeWritesRow ==
    \A sid \in 1..Len(probes) :
        (sid <= Len(probes') /\ probes'[sid] # probes[sid]) =>
            LET q == Last(probes'[sid])
            IN  \/ /\ Len(measurements'[sid]) = Len(measurements[sid]) + 1
                   /\ Classified(q.Outcome, Last(measurements'[sid]))
                   /\ Last(measurements'[sid]).Protocol = q.Protocol
                   /\ Last(measurements'[sid]).RetryNumber = q.RetryNumber
                   /\ events' = events + (IF q.Outcome # ReportOK THEN 1 ELSE 0)
                \/ /\ measurements' = measurements
                   /\ events' = events + (IF q.Outcome # ReportOK THEN 1 ELSE 0) + 1

\* C23: every stored row is classified by exactly one of three cases: a
\* failed Prober call gives tag "fail" and the error text, a report with an
\* error gives the report's tag and message, a report without error gives
\* tag "success" and no message; in each case the row is written.
C23_ThreeWayClassification == [] RowsClassified /\ [][ProbeWritesRow]_vars

C23_Witness ==
    \E sid \in SessionIDs :
        /\ \E i \in 1..Len(measurements[sid]) : measurements[sid][i].ErrorOp = "fail"
        /\ \E i \in 1..Len(measurements[sid]) : measurements[sid][i].ErrorOp = "connect"
        /\ \E i \in 1..Len(measurements[sid]) : measurements[sid][i].ErrorOp = "success"

\* ---- C24
\* C24: no step of a run (command, acquisition, dispatch, worker, initial
\* probe, read-back, retry, monitor, shutdown) changes the Store's servers
\* table.
C24_ServerRowsUntouched == [][dbServers' = dbServers]_vars

C24_Witness ==
    /\ pc = "done"
    /\ ret = "nil"
    /\ \E sid \in SessionIDs :
          /\ Len(measurements[sid]) >= 3
          /\ \E i \in 1..Len(measurements[sid]) : ~SuccessRow(measurements[sid][i])
          /\ ServerByID(measurements[sid][1].ServerID).TCPErrorMsg = ""
          /\ ServerByID(measurements[sid][1].ServerID).UDPErrorMsg = ""

\* ---- C25
\* sequence a is the beginning of sequence b
IsPrefix(a, b) == Len(a) <= Len(b) /\ SubSeq(b, 1, Len(a)) = a

RowsOnlyAppended ==
    /\ Len(measurements) <= Len(measurements')
    /\ \A sid \in SessionIDs : IsPrefix(measurements[sid], measurements'[sid])
    /\ Len(Rows(measurements')) \in {TotalRows, TotalRows + 1}

\* C25: every step leaves the stored measurement rows as they are or adds
\* exactly one row; the rows stored before the step are all kept, unchanged
\* and in their order.
C25_MeasurementsAppendOnly == [][RowsOnlyAppended]_vars

C25_Witness ==
    /\ TotalRows >= 5
    /\ \E sid \in SessionIDs :
          /\ Len(measurements[sid]) >= 3
          /\ measurements[sid][1].Protocol = measurements[sid][3].Protocol

\* ---- C26
\* C26: two stored rows with the same session id have the same client id
\* and server id; every measureServer call got a session id of its own, so
\* passes running at the same time in different workers, and passes of the
\* same client or the same server, never share one.
C26_SessionIdentifiesPass ==
    /\ \A a, b \in Range(Rows(measurements)) :
          a.SessionID = b.SessionID => a.ClientID = b.ClientID /\ a.ServerID = b.ServerID
    /\ \A i, j \in 1..Len(passLog) : i # j => passLog[i].SessionID # passLog[j].SessionID
    /\ \A v, w \in WorkerIDs :
          (v # w /\ workers[v].pc \in PassStates /\ workers[w].pc \in PassStates) =>
              workers[v].sessionID # workers[w].sessionID
    /\ \A a \in Range(Rows(measurements)) :
          \E n \in 1..Len(passLog) :
              passLog[n] = [ClientID |-> a.ClientID, ServerID |-> a.ServerID, SessionID |-> a.SessionID]

C26_Witness ==
    /\ \E v, w \in WorkerIDs :
          /\ v # w
          /\ workers[v].pc \in PassStates /\ workers[w].pc \in PassStates
          /\ measurements[workers[v].sessionID] # <<>>
          /\ measurements[workers[w].sessionID] # <<>>
          /\ workers[v].client.ID = workers[w].client.ID
    /\ Len(passLog) = 2

\* ---- C27
MonitorErrorStep ==
    \A c \in 1..Len(monitor) :
        (checks'[c] # checks[c] /\ Last(checks'[c]) = "error") =>
            /\ c \in activeClients'
            /\ monitor'[c] = "running"
            /\ clients'[c].ExpirationTime = clients[c].ExpirationTime
            /\ dbClients' = dbClients

\* C27: a validity check that returns an error leaves the client in the
\* active set, leaves its expiration time as it was, in memory and in the
\* Store, and leaves the monitor running.
C27_CheckErrorIsNotInvalidity == [][MonitorErrorStep]_vars

C27_Witness ==
    \E c \in 1..Len(monitor) :
        /\ checks[c] = <<"error", "valid">>
        /\ monitor[c] = "running"
        /\ c \in activeClients
        /\ dbClients[c].ExpirationTime = clients[c].ExpirationTime

Acquired(cid) ==
    /\ cid \in 1..Len(dbClients)
    /\ dbClients[cid].ID = cid
    /\ clients[cid].ProxyURL = BuildTransportURL(clients[cid])
    /\ cid <= Len(monitor)

\* C29: a client is dispatched, and a job of a client is started, only when
\* the client has been persisted (which gave it its id), its transport
\* string has been stored and its monitor has been started; no client id
\* gets more than one monitor.
C29_MonitorStartedBeforeDispatch ==
    /\ pc = "drain" => Acquired(savedClient)
    /\ \A w \in WorkerIDs : workers[w].pc \in PassStates => Acquired(workers[w].client.ID)
    /\ Len(monitor) <= Len(dbClients)

\* ---- C30
\* a step changes the expiration time of a persisted client, in its stored
\* row or in its struct, only as a validity check of that client's running
\* monitor; the copy of the client a job works on keeps its expiration time
ExpirationChangedByMonitorOnly ==
    /\ \A c \in 1..Len(dbClients) :
          (\/ dbClients'[c].ExpirationTime # dbClients[c].ExpirationTime
           \/ clients'[c].ExpirationTime # clients[c].ExpirationTime) =>
              /\ c <= Len(monitor)
              /\ monitor[c] = "running"
              /\ checks'[c] # checks[c]
    /\ \A w \in WorkerIDs :
          (workers[w].pc \in PassStates /\ workers'[w].sessionID = workers[w].sessionID) =>
              workers'[w].client.ExpirationTime = workers[w].client.ExpirationTime

\* C30: once a client is persisted, only its own Session Monitor changes its
\* expiration time: no step of the acquisition loop, of the dispatcher or of
\* a worker, and no lease or transport call of the Provider, changes it.
C30_OnlyMonitorChangesExpiration == [][ExpirationChangedByMonitorOnly]_vars

C30_Witness ==
    \E w \in WorkerIDs :
        /\ workers[w].pc \in PassStates
        /\ Len(dbClients) = 2
        /\ workers[w].client.ID = 2
        /\ dbClients[1].ExpirationTime # dbClients[2].ExpirationTime
        /\ monitor = <<"stopped">>

\* ------------------------------------------------------------------ C31
\* RunMeasurements was given no explicit server selection
NoExplicitSelection ==
    settings.ServerID = 0 /\ settings.ServerIDs = <<>> /\ settings.ServerNames = <<>>

\* the server resolution of the run is over
ServersResolved == pc \notin {"cmd", "rejected", "start"}

OnAllowedPort(r) ==
    LET allowedPorts == getAllowedPorts(config)
    IN  allowedPorts # <<>> => \E i \in 1..Len(allowedPorts) : r.Port = allowedPorts[i]

\* C31: without an explicit server selection, every server of the resolved
\* set has an empty last-known tcp error and an empty last-known udp error
\* and, when the provider has a non-empty allowed-ports list, a port of that
\* list; the run fails when the set is empty.
C31_WorkingServersErrorFree ==
    NoExplicitSelection /\ ServersResolved =>
        /\ \A i \in 1..Len(servers) :
              /\ servers[i].TCPErrorMsg = "" /\ servers[i].UDPErrorMsg = ""
              /\ OnAllowedPort(servers[i])
        /\ servers = <<>> => pc = "done" /\ ret = "error"

\* what the resolution does guarantee: one protocol without a last-known
\* error, the allowed port, and the failure on an empty set
WorkingServersOneProtocolFree ==
    NoExplicitSelection /\ ServersResolved =>
        /\ \A i \in 1..Len(servers) :
              /\ servers[i].TCPErrorMsg = "" \/ servers[i].UDPErrorMsg = ""
              /\ OnAllowedPort(servers[i])
        /\ servers = <<>> => pc = "done" /\ ret = "error"

\* a server was left out because of its port
PortFilteredRun ==
    /\ NoExplicitSelection /\ ServersResolved
    /\ config.allowed_ports # <<>>
    /\ Len(dbServers) > Len(servers)

\* ------------------------------------------------------------------ C32
LeaseCalled == providerCall.op = "GetClientForISP" /\ providerCall.result # NoLeaseResult

\* the attempts the call made before attempt n
NoClientBefore(n) == \A i \in 1..(n - 1) : providerCall.outcomes[i] # "client"

\* C32: one GetClientForISP call makes at most maxRetries egress checks and
\* returns an error when none of them yields a client; with maxRetries = 0 it
\* returns an error without any attempt; a "no available nodes" failure ends
\* the call at once with an error, whatever attempts remain.
C32_LeaseBoundedByMaxRetries ==
    LeaseCalled =>
        LET got == providerCall.result IN
        /\ got.attempts \in 0..providerCall.maxRetries
        /\ NoClientBefore(got.attempts + 1) => got.err # "" /\ got.client = NoClient
        /\ got.err = "" => /\ got.attempts >= 1
                           /\ providerCall.outcomes[got.attempts] = "client"
                           /\ got.client.ISP = providerCall.isp
        /\ providerCall.maxRetries = 0 => got.err # "" /\ got.attempts = 0
        /\ \A i \in 1..providerCall.maxRetries :
              providerCall.outcomes[i] = "no nodes" /\ NoClientBefore(i) =>
                  /\ got.attempts <= i
                  /\ got.err # ""
                  /\ got.client = NoClient

\* a call that met the SOCKS failure on its second attempt, with a node
\* available for the third
C32_Witness ==
    /\ LeaseCalled
    /\ providerCall.maxRetries = 3
    /\ providerCall.outcomes = <<"fetch error", "no nodes", "client">>
    /\ providerCall.result.attempts = 2
    /\ providerCall.result.err = "no available nodes"

\* ------------------------------------------------------------------ C33
\* the step in which processMeasurements returns
DispatcherReturns == pc = "drain" /\ pc' # "drain"

\* C33: a dispatch always terminates, for every number of servers and every
\* configured worker count, zero included: the dispatcher returns, and when
\* it does every started worker has exited and the results channel is closed
\* and drained; so no worker waits for ever to send its result and the
\* dispatcher never waits for ever on the jobs channel.
C33_DispatchTerminates ==
    /\ (pc = "drain") ~> (pc # "drain")
    /\ [][DispatcherReturns =>
            /\ resultsClosed /\ results = <<>> /\ wg = 0
            /\ \A w \in WorkerIDs : workers[w].pc = (IF w <= started THEN "exited" ELSE "idle")]_vars
    /\ [](Len(jobs) <= Len(servers) /\ Len(results) <= Len(servers))

\* dispatches that returned: one that started no worker, for a list of two
\* servers, and one that started two workers
C33_WitnessNoWorker ==
    /\ config.max_workers = 0 /\ Len(servers) = 2
    /\ jobsClosed /\ resultsClosed /\ pc \notin {"dispatch", "drain"}

C33_Witness ==
    /\ started = 2
    /\ Len(passLog) = 2
    /\ jobsClosed /\ resultsClosed /\ pc \notin {"dispatch", "drain"}

\* ------------------------------------------------------------------ C34
\* both retry-0 rows of session sid record a failure
BothFailedInitially(sid) ==
    \A proto \in ProtocolSet :
        \E j \in 1..Len(measurements[sid]) :
            /\ measurements[sid][j].RetryNumber = 0
            /\ measurements[sid][j].Protocol = proto
            /\ ~SuccessRow(measurements[sid][j])

\* position of prefix pfx in the configured list (0 for the bare retry)
PrefixIndex(pfx) ==
    IF pfx = "" THEN 0 ELSE CHOOSE i \in 1..Len(prefixes) : prefixes[i] = pfx

\* C34: retry numbering is deterministic; in a pass whose tcp and udp initial
\* attempts both failed, the retry of a given protocol and prefix always
\* carries the same number, the tcp retries being numbered before the udp
\* retry: the bare tcp retry is 1, the tcp retry of the i-th prefix is 1 + i
\* and a udp retry comes after all of them.
C34_RetryNumberingDeterministic ==
    \A sid \in 1..Len(probes) :
        BothFailedInitially(sid) =>
            \A n \in 1..Len(RetryProbesOf(sid)) :
                LET q == RetryProbesOf(sid)[n]
                IN  IF q.Protocol = "tcp"
                    THEN q.RetryNumber = 1 + PrefixIndex(q.Prefix)
                    ELSE q.RetryNumber > 1 + Len(prefixes)

\* the numbering a pass does give: a function of the order in which the
\* range over initialResults visits the two protocols
RetryNumberingUpToMapOrder ==
    \A sid \in 1..Len(probes) :
        BothFailedInitially(sid) =>
            \E first \in ProtocolSet :
                \A n \in 1..Len(RetryProbesOf(sid)) :
                    LET q == RetryProbesOf(sid)[n]
                    IN  q.RetryNumber = (IF q.Protocol = first THEN 0 ELSE 1 + Len(prefixes))
                                        + 1 + PrefixIndex(q.Prefix)

\* a pass that retried udp first
UdpRetriedFirst ==
    \E sid \in 1..Len(probes) :
        /\ BothFailedInitially(sid)
        /\ Len(RetryProbesOf(sid)) = 2 * (1 + Len(prefixes))
        /\ RetryProbesOf(sid)[1].Protocol = "udp"

\* ------------------------------------------------------------------ C35
\* the tcp retry-0 probe of session sid was made and its row is not stored:
\* InsertMeasurement failed
TcpSaveFailed(sid) ==
    /\ Len(probes[sid]) >= 1
    /\ probes[sid][1].Protocol = "tcp" /\ probes[sid][1].RetryNumber = 0
    /\ Retry0Before(sid, Len(measurements[sid]), "tcp") = 0

\* sessions of client cid whose tcp retry-0 row could not be saved
TcpSaveFailures(cid) ==
    { sid \in 1..Len(probes) : passLog[sid].ClientID = cid /\ TcpSaveFailed(sid) }

\* C35: when persisting the tcp retry-0 Measurement fails the pass returns an
\* error at once: udp is not probed, no retry is issued, the worker hands the
\* error to the dispatcher, which counts it, and the other jobs of the
\* dispatch still run.
C35_TcpSaveFailureEndsPass ==
    \A sid \in 1..Len(probes) :
        TcpSaveFailed(sid) =>
            /\ Len(probes[sid]) = 1
            /\ measurements[sid] = <<>>
            /\ \A w \in WorkerIDs :
                  workers[w].pc \in PassStates /\ workers[w].sessionID = sid =>
                      workers[w].pc = "done" /\ workers[w].err # ""
            /\ LET cid == passLog[sid].ClientID
               IN  cid = savedClient /\ pc \notin {"dispatch", "drain"} =>
                      /\ errorCount >= Cardinality(TcpSaveFailures(cid))
                      /\ \A i \in 1..Len(servers) : PassCount(cid, servers[i]) = 1

\* a returned dispatch of two jobs: one pass ended on the failed save, counted
\* once, and the other pass went through its initial round
C35_Witness ==
    /\ pc \notin {"dispatch", "drain"}
    /\ errorCount = 1
    /\ \E sid, other \in 1..Len(probes) :
          /\ passLog[sid].ClientID = savedClient /\ passLog[other].ClientID = savedClient
          /\ TcpSaveFailed(sid)
          /\ Len(measurements[other]) = 2

\* ------------------------------------------------------------------ C36
\* the stored row of the server has a last-known error for the protocol
HasLastError(proto, server) ==
    \/ proto = "tcp" /\ server.TCPErrorMsg # ""
    \/ proto = "udp" /\ server.UDPErrorMsg # ""

\* worker w is at the initial attempt of a protocol with a last-known error
AtSkip(w) ==
    /\ workers[w].pc = "initial"
    /\ HasLastError(Protocols[workers[w].k], workers[w].server)

\* session sid has neither a probe nor a row of protocol proto
NothingOf(sid, proto) ==
    /\ \A j \in 1..Len(probes[sid]) : probes[sid][j].Protocol # proto
    /\ \A i \in 1..Len(measurements[sid]) : measurements[sid][i].Protocol # proto

\* C36: a protocol skipped in the initial round because of the server's
\* last-known error gets no probe and no Measurement row at any retry number
\* in that pass, and the skip itself is no error: the pass goes on to the next
\* protocol or to the read-back without an error and without a Store or
\* Prober call.
C36_SkippedProtocolLeavesNoRow ==
    /\ [](\A sid \in 1..Len(probes) : \A proto \in ProtocolSet :
            HasLastError(proto, ServerByID(passLog[sid].ServerID)) => NothingOf(sid, proto))
    /\ [][\A w \in WorkerIDs :
            AtSkip(w) /\ workers'[w] # workers[w] =>
                /\ workers'[w].err = ""
                /\ workers'[w].pc \in {"initial", "readback"}
                /\ workers'[w].sessionID = workers[w].sessionID
                /\ measurements' = measurements /\ probes' = probes
                /\ events' = events]_vars

\* a pass over: udp was skipped, tcp failed and was retried, no error returned
C36_Witness ==
    \E w \in WorkerIDs :
        /\ workers[w].pc = "done" /\ workers[w].err = ""
        /\ HasLastError("udp", workers[w].server)
        /\ Len(probes[workers[w].sessionID]) >= 2
        /\ NothingOf(workers[w].sessionID, "udp")

\* ------------------------------------------------------------------ C37
\* no worker is still inside the pass of session sid
PassOver(sid) ==
    \A w \in WorkerIDs :
        workers[w].sessionID = sid => workers[w].pc \notin {"initial", "readback", "retry"}

\* protocols whose stored retry-0 row of session sid records a failure
FailedInitially(sid) ==
    { proto \in ProtocolSet :
        \E j \in 1..Len(measurements[sid]) :
            /\ measurements[sid][j].RetryNumber = 0
            /\ measurements[sid][j].Protocol = proto
            /\ ~SuccessRow(measurements[sid][j]) }

\* the n-th retry probe of session sid failed in the Prober, or its row
\* could not be saved
RetryFailed(sid, n) ==
    LET q == RetryProbesOf(sid)[n]
    IN  \/ q.Outcome # ReportOK
        \/ \A i \in 1..Len(measurements[sid]) :
              measurements[sid][i].RetryNumber # q.RetryNumber

\* C37: a retry probe that fails, in the Prober or in the Store, does not end
\* the pass: a pass that entered its retry loop makes every retry of every
\* failed protocol, the n-th of them with retry number n, and returns no
\* error.
C37_RetryFailureDoesNotAbort ==
    \A sid \in 1..Len(probes) :
        Len(RetryProbesOf(sid)) >= 1 =>
            /\ \A n \in 1..Len(RetryProbesOf(sid)) : RetryProbesOf(sid)[n].RetryNumber = n
            /\ \A w \in WorkerIDs :
                  workers[w].sessionID = sid /\ workers[w].pc = "done" => workers[w].err = ""
            /\ PassOver(sid) =>
                  Len(RetryProbesOf(sid)) = (1 + Len(prefixes)) * Cardinality(FailedInitially(sid))

\* a pass over, without error, whose first retry failed and whose second
\* retry was made all the same
C37_Witness ==
    \E w \in WorkerIDs :
        /\ workers[w].pc = "done" /\ workers[w].err = ""
        /\ Len(RetryProbesOf(workers[w].sessionID)) = 2
        /\ RetryFailed(workers[w].sessionID, 1)
        /\ RetryProbesOf(workers[w].sessionID)[2].RetryNumber = 2

\* the same with a retry whose row the Store refused
C37_WitnessSaveFailed ==
    \E w \in WorkerIDs :
        /\ workers[w].pc = "done" /\ workers[w].err = ""
        /\ Len(RetryProbesOf(workers[w].sessionID)) = 2
        /\ RetryProbesOf(workers[w].sessionID)[1].Outcome = ReportOK
        /\ RetryFailed(workers[w].sessionID, 1)

\* ------------------------------------------------------------------ C38
ValidityChecked == providerCall.op = "IsValidClient" /\ providerCall.result # NoVerdict

\* C38: the validity check answers "invalid" without an error only when the
\* egress IP it observed differs from the client's leased IP; when the egress
\* check cannot be completed it returns an error together with "not valid"
\* and leaves the client, its expiration time included, as it was.
C38_InvalidOnlyOnChangedIP ==
    ValidityChecked =>
        LET c == providerCall.client
            fetched == providerCall.fetched
            got == providerCall.result
        IN  /\ got.err = "" /\ ~got.valid => fetched.ok /\ fetched.IP # c.IP
            /\ ~fetched.ok => got.err # "" /\ ~got.valid /\ got.client = c

\* a check that could not be completed, made after the client's expiration
\* time: the client is as before
C38_Witness ==
    /\ ValidityChecked
    /\ ~providerCall.fetched.ok
    /\ providerCall.result.err # ""
    /\ now > providerCall.client.ExpirationTime
    /\ providerCall.result.client.ExpirationTime = providerCall.client.ExpirationTime

\* a check that saw another IP: invalid, without error
C38_WitnessChangedIP ==
    /\ ValidityChecked
    /\ providerCall.fetched.ok /\ providerCall.fetched.IP # providerCall.client.IP
    /\ providerCall.result.err = "" /\ ~providerCall.result.valid

\* ------------------------------------------------------------------ C39
\* number of occurrences of e in the sequence s
Occurrences(e, s) == Cardinality({ i \in 1..Len(s) : s[i] = e })

IsPermutationOf(s, t) ==
    /\ Len(s) = Len(t)
    /\ \A e \in Range(s) \cup Range(t) : Occurrences(e, s) = Occurrences(e, t)

\* C39: shuffling the ISP list gives a permutation of the list: every ISP
\* occurs in the result as many times as in the list given, so no listed ISP
\* is lost or added before the lease loop.
C39_ShuffleIsPermutation ==
    providerCall.op = "shuffleStrings" /\ providerCall.returned =>
        IsPermutationOf(providerCall.slice, providerCall.given)

\* a list with a repeated name that came back in another order
C39_Witness ==
    /\ providerCall.op = "shuffleStrings" /\ providerCall.returned
    /\ providerCall.given = <<"ispA", "ispB", "ispA">>
    /\ providerCall.slice = <<"ispA", "ispA", "ispB">>

\* in a run: the list the lease loop walks is a permutation of the
\* Provider's list, and a run that went through it made MaxClients lease
\* calls for every listed ISP
ListedISPsAllLeased ==
    settings.ISP = "" /\ pc \notin {"cmd", "rejected", "start", "isps"} /\ ret # "error" =>
        /\ IsPermutationOf(isps, providerISPs)
        /\ pc = "done" =>
              \A e \in Range(providerISPs) :
                  \E ii \in 1..Len(isps) : isps[ii] = e /\ CountCalls(ii) = settings.MaxClients

ShuffledRun ==
    /\ pc = "done" /\ ret = "nil"
    /\ Len(isps) = 2 /\ isps # providerISPs
    /\ Len(leaseCalls) = 2

====
